---- MODULE Spec2Model ----
(***************************************************************************)
(* Model of the ClusterDeployment controller                               *)
(* (pkg/controller/clusterdeployment/clusterdeployment_controller.go).     *)
(*                                                                         *)
(* The state is the content of the object store for one ClusterDeployment  *)
(* key (the ClusterDeployment and its children), the clock, and a record   *)
(* of what the most recent Reconcile pass observed, wrote and returned.    *)
(* One action, Reconcile, is one whole invocation of Reconcile(); the      *)
(* other actions are the collaborators that change the store between       *)
(* passes (garbage collector, job controller, DNS zone controller,         *)
(* deprovision controller, install manager, the user).                     *)
(*                                                                         *)
(* SpecPair holds two ClusterDeployments of one namespace in a store keyed *)
(* by kind and name (objects), with one worker for each (inflight).        *)
(***************************************************************************)
EXTENDS Integers, Sequences, FiniteSets, TLC

\* ------------------------------------------------------------------ bounds
\* Last value of the clock.
MaxTime == 3
\* Highest metadata.generation the user's edits reach.
MaxGen == 2
\* Highest container restart count the pod listing reports.
MaxRestarts == 1
\* Longest ingress domain, in characters.
MaxDomainLen == 4

\* ------------------------------------------------------- program constants
\* defaultRequeueTime = 10 * time.Second
defaultRequeueTime == 10
\* requeueAfter = expiry.Sub(time.Now()) + 60*time.Second
expiryRequeueSlack == 60

VARIABLES
    cd,         \* the ClusterDeployment
    imageSet,   \* the ClusterImageSet the ClusterDeployment may reference
    job,        \* the install job
    cfgMap,     \* TRUE iff the install-config config map exists
    zone,       \* the managed DNSZone
    req,        \* the ClusterDeprovisionRequest
    isJob,      \* the installer-image resolver (imageset) job
    secret,     \* the admin kubeconfig secret
    nsDeleting, \* TRUE iff the namespace has a deletion timestamp
    now,        \* the clock
    pass,       \* what the most recent Reconcile pass saw, wrote and returned
    wasInstalled, \* TRUE iff the persisted status.installed has ever been true
    objects,    \* the store by key, where two ClusterDeployments share it
    inflight    \* what each Reconcile in flight on the shared store has read

vars == <<cd, imageSet, job, cfgMap, zone, req, isJob, secret, nsDeleting, now, pass, wasInstalled,
         objects, inflight>>

\* ------------------------------------------------------------ store values
NoCD == [exists |-> FALSE]
NoJob == [exists |-> FALSE]
NoZone == [exists |-> FALSE]
NoReq == [exists |-> FALSE]
NoSecret == [exists |-> FALSE]
NoImageSet == [exists |-> FALSE]
\* No keyed store and no worker: one ClusterDeployment, held in the variables.
NoObjects == << >>
NoWorkers == << >>

\* A job hash annotation that is absent.
NoHash == << >>
\* The hash of a job specification that the current inputs do not generate.
DifferentHash == <<"DIFFERENTHASH">>

\* Kubeconfig data as the installer wrote it, and after the fix-up.
RawKubeconfig == "kubeconfig"
FixedKubeconfig == "kubeconfig-fixed"

\* The characters ingress domains are made of.
Chars == {"*", ".", "a"}

\* ------------------------------------------------------------ pure helpers
\* wildcardDomain = regexp.MustCompile(`(?i)^\*\.`), ReplaceAllString(d, ""):
\* a leading "*." is removed once; any other domain is returned as it is.
\* wildcardDomain that removes the star and leaves the dot.
wildcardDomain_KeepsDot(d) ==
    IF Len(d) >= 2 /\ d[1] = "*" /\ d[2] = "." THEN SubSeq(d, 2, Len(d)) ELSE d

wildcardDomain(d) ==
    IF Len(d) >= 2 /\ d[1] = "*" /\ d[2] = "." THEN SubSeq(d, 3, Len(d)) ELSE d

\* The ingress list with every domain rewritten, and whether any changed.
migrateWildcardIngress(ingress) ==
    LET new == [i \in 1..Len(ingress) |-> wildcardDomain(ingress[i])]
    IN [ingress |-> new, migrated |-> \E i \in 1..Len(ingress) : new[i] # ingress[i]]

\* images.GetHiveImage: the globally configured default operator image.
DefaultHiveImage == "default-hive"

\* getHiveImage preferring the image set's value to the spec's.
getHiveImage_ImageSetFirst(c, is) ==
    IF is.exists /\ is.hive # "" THEN is.hive
    ELSE IF c.images.hive # "" THEN c.images.hive
    ELSE DefaultHiveImage

getHiveImage(c, is) ==
    IF c.images.hive # "" THEN c.images.hive
    ELSE IF is.exists /\ is.hive # "" THEN is.hive
    ELSE DefaultHiveImage

getReleaseImage(c, is) ==
    IF c.images.release # "" THEN c.images.release
    ELSE IF is.exists /\ is.release # "" THEN is.release
    ELSE ""

\* controllerutils.SetClusterDeploymentCondition with UpdateConditionNever, on
\* the one condition the controller sets (ClusterImageSetNotFound): an absent
\* condition is added only with status True; a present one changes only when
\* its status changes.
SetClusterDeploymentCondition(cond, status) ==
    IF cond = "absent" THEN (IF status = "True" THEN "True" ELSE "absent")
    ELSE IF cond # status THEN status
    ELSE cond

\* install.GenerateInstallerJob: the job specification and annotations
\* generated from the ClusterDeployment and the resolved images.
GenerateInstallerJob(c, hiveImage, releaseImage) ==
    [spec |-> <<hiveImage, releaseImage, c.status.installerImage>>,
     hasGen |-> TRUE, gen |-> c.generation]

\* md5 over the marshalled job spec, hex encoded.
calculateJobSpecHash(j) == <<"md5">> \o j.spec

\* controllerutils.FixupKubeconfig.
FixupKubeconfig(raw) == IF raw = RawKubeconfig THEN FixedKubeconfig ELSE raw

\* apihelpers.GetResourceName(cd.Name, "admin-kubeconfig").
AdminKubeconfigSecretName == "cd-admin-kubeconfig"

\* ------------------------------------------------- the pass record
\* The store as a pass reads it.
Store ==
    [cd |-> cd, imageSet |-> imageSet, job |-> job, cfgMap |-> cfgMap,
     zone |-> zone, req |-> req, isJob |-> isJob, secret |-> secret,
     nsDeleting |-> nsDeleting]

\* What a pass over an absent object leaves in the history record.
NoOrig ==
    [exists |-> FALSE, deleted |-> FALSE, finalizer |-> FALSE,
     installed |-> FALSE, preserve |-> FALSE, infraID |-> "",
     manageDNS |-> FALSE]

OrigOf(c) ==
    IF c.exists
    THEN [exists |-> TRUE, deleted |-> c.deleted, finalizer |-> c.finalizer,
          installed |-> c.status.installed, preserve |-> c.preserveOnDelete,
          infraID |-> c.status.infraID, manageDNS |-> c.manageDNS]
    ELSE NoOrig

\* A pass that has so far read nothing but the ClusterDeployment, written
\* nothing and would return reconcile.Result{}, nil.
NewPass(S) ==
    [cd |-> S.cd, job |-> S.job, cfgMap |-> S.cfgMap, zone |-> S.zone,
     req |-> S.req, isJob |-> S.isJob, secret |-> S.secret,
     calls |-> {}, fault |-> FALSE, err |-> FALSE, requeue |-> 0, writes |-> {}, metrics |-> {},
     seenJob |-> "notlooked", seenZone |-> "notlooked",
     seenReq |-> "notlooked", seenISJob |-> "notlooked", sawExpired |-> FALSE,
     orig |-> OrigOf(S.cd)]

Err(R) == [R EXCEPT !.err = TRUE]
Requeue(R, d) == [R EXCEPT !.requeue = d]
Wrote(R, w) == [R EXCEPT !.writes = @ \cup {w}]
Observed(R, m) == [R EXCEPT !.metrics = @ \cup {m}]

\* How a Get of a child that may be terminating comes back.
Seen(o) == IF ~o.exists THEN "notfound" ELSE IF o.deleting THEN "terminating" ELSE "live"

\* Delete with foreground propagation: the object gets a deletion timestamp
\* and stays until the garbage collector removes it.
ForegroundDelete(o) == [o EXCEPT !.deleting = TRUE]

\* ------------------------------------------------------------ store calls
\* A call to the object store (or another collaborator) made by the pass: F
\* is the set of calls that fail in this pass.  The call is recorded, and the
\* pass carries the error if it failed.
Try(R, F, call) ==
    [R EXCEPT !.calls = @ \cup {call}, !.err = call \in F, !.fault = @ \/ call \in F]

\* ------------------------------------------------------------- finalizer
\* The object store's Update of an object whose last finalizer is cleared:
\* with a deletion timestamp set the object is removed from the store.
WithoutFinalizer(c) == IF c.deleted THEN NoCD ELSE [c EXCEPT !.finalizer = FALSE]

\* addClusterDeploymentFinalizer whose Update is not sent: the finalizer is
\* set on the in-memory copy only.
addClusterDeploymentFinalizer_NotPersisted(R, F) ==
    LET A == Try(R, F, "updateCD") IN
    IF A.err THEN A ELSE Wrote(A, "addFinalizer")

addClusterDeploymentFinalizer(R, F) ==
    LET A == Try(R, F, "updateCD") IN
    IF A.err THEN A
    ELSE Wrote([A EXCEPT !.cd.finalizer = TRUE], "addFinalizer")

removeClusterDeploymentFinalizer(R, F) ==
    LET A == Try(R, F, "updateCD") IN
    IF A.err THEN A
    ELSE Observed(Observed(Wrote([A EXCEPT !.cd = WithoutFinalizer(R.cd)],
                                 "removeFinalizer"),
                           "clearUnderway"), "clustersDeleted")

\* ------------------------------------------------------ deletion workflow
\* generateDeprovisionRequest that leaves the credentials reference out.
generateDeprovisionRequest_NoCredentials(c) ==
    [exists |-> TRUE, completed |-> FALSE,
     infraID |-> c.status.infraID, clusterID |-> c.status.clusterID,
     region |-> IF c.aws THEN c.region ELSE "",
     creds |-> ""]

\* Lines 1163-1187: the request carries the identifiers of the status and
\* the region and credentials reference of the spec.
generateDeprovisionRequest(c) ==
    [exists |-> TRUE, completed |-> FALSE,
     infraID |-> c.status.infraID, clusterID |-> c.status.clusterID,
     region |-> IF c.aws THEN c.region ELSE "",
     creds |-> IF c.aws THEN c.creds ELSE ""]

\* Returns the pass and whether the caller goes on (result == nil, err == nil).
ensureManagedDNSZoneDeleted(R, F) ==
    IF ~R.cd.manageDNS THEN [R |-> R, goOn |-> TRUE]
    ELSE LET A == [Try(R, F, "getZone") EXCEPT !.seenZone = Seen(R.zone)] IN
    IF A.err THEN [R |-> A, goOn |-> FALSE]
    ELSE IF ~R.zone.exists THEN [R |-> A, goOn |-> TRUE]
    ELSE IF R.zone.deleting
         THEN [R |-> Requeue(A, defaultRequeueTime), goOn |-> FALSE]
    ELSE LET B == Try(A, F, "deleteZone") IN
         [R |-> IF B.err THEN B
                ELSE Wrote([B EXCEPT !.zone = ForegroundDelete(R.zone)], "deleteZone"),
          goOn |-> FALSE]

\* The deprovision request created without looking for an existing one.
syncDeprovisionRequest_NoLookup(R, F, nsGone) ==
    LET B == Try(R, F, "createReq") IN
    IF B.err THEN B
    ELSE Wrote([B EXCEPT !.req = generateDeprovisionRequest(R.cd)], "createReq")

\* syncDeprovisionRequest that never looks at the request's completion.
syncDeprovisionRequest_NoCompletionCheck(R, F, nsGone) ==
    LET request == generateDeprovisionRequest(R.cd)
        A == [Try(R, F, "getReq") EXCEPT
                 !.seenReq = IF R.req.exists THEN "found" ELSE "notfound"]
    IN IF A.err THEN A
    ELSE IF ~R.req.exists THEN
        LET B == Try(A, F, "createReq") IN
        IF B.err THEN
            LET C == Try(B, F, "getNs") IN
            IF C.err THEN C
            ELSE IF nsGone THEN removeClusterDeploymentFinalizer(C, F)
            ELSE C
        ELSE Wrote([B EXCEPT !.req = request], "createReq")
    ELSE A

\* syncDeprovisionRequest that returns the error of a failed create whatever
\* the state of the namespace.
syncDeprovisionRequest_NoGiveUp(R, F, nsGone) ==
    LET request == generateDeprovisionRequest(R.cd)
        A == [Try(R, F, "getReq") EXCEPT
                 !.seenReq = IF R.req.exists THEN "found" ELSE "notfound"]
    IN IF A.err THEN A
    ELSE IF ~R.req.exists THEN
        LET B == Try(A, F, "createReq") IN
        IF B.err THEN B
        ELSE Wrote([B EXCEPT !.req = request], "createReq")
    ELSE IF R.req.completed THEN removeClusterDeploymentFinalizer(A, F)
    ELSE A

\* Lines 955-1006: the deprovision request is generated, created if absent,
\* and polled for completion if present.
syncDeprovisionRequest(R, F, nsGone) ==
    LET request == generateDeprovisionRequest(R.cd)
        A == [Try(R, F, "getReq") EXCEPT
                 !.seenReq = IF R.req.exists THEN "found" ELSE "notfound"]
    IN IF A.err THEN A
    ELSE IF ~R.req.exists THEN
        LET B == Try(A, F, "createReq") IN
        IF B.err THEN
            \* err is overwritten by the result of the namespace lookup
            LET C == Try(B, F, "getNs") IN
            IF C.err THEN C
            ELSE IF nsGone THEN removeClusterDeploymentFinalizer(C, F)
            ELSE C
        ELSE Wrote([B EXCEPT !.req = request], "createReq")
    ELSE IF R.req.completed THEN removeClusterDeploymentFinalizer(A, F)
    ELSE A

\* syncDeletedClusterDeployment without the return after the job's deletion:
\* the pass goes on to the deprovision request.
syncDeletedClusterDeployment_NoStop(R, hiveImage, F, nsGone) ==
    LET z == ensureManagedDNSZoneDeleted(R, F) IN
    IF ~z.goOn THEN z.R
    ELSE LET A == [Try(z.R, F, "getJob") EXCEPT !.seenJob = Seen(R.job)] IN
    IF A.err THEN A
    ELSE LET B == IF R.job.exists /\ ~R.job.deleting
                  THEN Wrote([A EXCEPT !.job = ForegroundDelete(R.job)], "deleteJob")
                  ELSE A
    IN IF R.cd.preserveOnDelete /\ R.cd.status.installed THEN
        IF R.cd.finalizer THEN removeClusterDeploymentFinalizer(B, F) ELSE B
    ELSE IF R.cd.status.infraID = "" THEN removeClusterDeploymentFinalizer(B, F)
    ELSE syncDeprovisionRequest(B, F, nsGone)

\* syncDeletedClusterDeployment honouring preserveOnDelete whether or not the
\* cluster was installed.
syncDeletedClusterDeployment_PreserveAlways(R, hiveImage, F, nsGone) ==
    LET z == ensureManagedDNSZoneDeleted(R, F) IN
    IF ~z.goOn THEN z.R
    ELSE LET A == [Try(z.R, F, "getJob") EXCEPT !.seenJob = Seen(R.job)] IN
    IF A.err THEN A
    ELSE IF R.job.exists THEN
        IF R.job.deleting THEN Requeue(A, defaultRequeueTime)
        ELSE LET B == Try(A, F, "deleteJob") IN
             IF B.err THEN B
             ELSE Wrote([B EXCEPT !.job = ForegroundDelete(R.job)], "deleteJob")
    ELSE IF R.cd.preserveOnDelete THEN
        IF R.cd.finalizer THEN removeClusterDeploymentFinalizer(A, F) ELSE A
    ELSE IF R.cd.status.infraID = "" THEN removeClusterDeploymentFinalizer(A, F)
    ELSE syncDeprovisionRequest(A, F, nsGone)

\* syncDeletedClusterDeployment without the test of preserveOnDelete.
syncDeletedClusterDeployment_NoPreserve(R, hiveImage, F, nsGone) ==
    LET z == ensureManagedDNSZoneDeleted(R, F) IN
    IF ~z.goOn THEN z.R
    ELSE LET A == [Try(z.R, F, "getJob") EXCEPT !.seenJob = Seen(R.job)] IN
    IF A.err THEN A
    ELSE IF R.job.exists THEN
        IF R.job.deleting THEN Requeue(A, defaultRequeueTime)
        ELSE LET B == Try(A, F, "deleteJob") IN
             IF B.err THEN B
             ELSE Wrote([B EXCEPT !.job = ForegroundDelete(R.job)], "deleteJob")
    ELSE IF R.cd.status.infraID = "" THEN removeClusterDeploymentFinalizer(A, F)
    ELSE syncDeprovisionRequest(A, F, nsGone)

\* syncDeletedClusterDeployment that does not look for the install job.
syncDeletedClusterDeployment_NoJobStep(R, hiveImage, F, nsGone) ==
    LET z == ensureManagedDNSZoneDeleted(R, F) IN
    IF ~z.goOn THEN z.R
    ELSE IF R.cd.preserveOnDelete /\ R.cd.status.installed THEN
        IF R.cd.finalizer THEN removeClusterDeploymentFinalizer(z.R, F) ELSE z.R
    ELSE IF R.cd.status.infraID = "" THEN removeClusterDeploymentFinalizer(z.R, F)
    ELSE syncDeprovisionRequest(z.R, F, nsGone)

\* syncDeletedClusterDeployment that asks for a deprovision whether or not an
\* infra ID was recorded.
syncDeletedClusterDeployment_NoInfraCheck(R, hiveImage, F, nsGone) ==
    LET z == ensureManagedDNSZoneDeleted(R, F) IN
    IF ~z.goOn THEN z.R
    ELSE LET A == [Try(z.R, F, "getJob") EXCEPT !.seenJob = Seen(R.job)] IN
    IF A.err THEN A
    ELSE IF R.job.exists THEN
        IF R.job.deleting THEN Requeue(A, defaultRequeueTime)
        ELSE LET B == Try(A, F, "deleteJob") IN
             IF B.err THEN B
             ELSE Wrote([B EXCEPT !.job = ForegroundDelete(R.job)], "deleteJob")
    ELSE IF R.cd.preserveOnDelete /\ R.cd.status.installed THEN
        IF R.cd.finalizer THEN removeClusterDeploymentFinalizer(A, F) ELSE A
    ELSE syncDeprovisionRequest(A, F, nsGone)

syncDeletedClusterDeployment(R, hiveImage, F, nsGone) ==
    LET z == ensureManagedDNSZoneDeleted(R, F) IN
    IF ~z.goOn THEN z.R
    ELSE LET A == [Try(z.R, F, "getJob") EXCEPT !.seenJob = Seen(R.job)] IN
    IF A.err THEN A
    ELSE IF R.job.exists THEN
        IF R.job.deleting THEN Requeue(A, defaultRequeueTime)
        ELSE LET B == Try(A, F, "deleteJob") IN
             IF B.err THEN B
             ELSE Wrote([B EXCEPT !.job = ForegroundDelete(R.job)], "deleteJob")
    ELSE IF R.cd.preserveOnDelete /\ R.cd.status.installed THEN
        IF R.cd.finalizer THEN removeClusterDeploymentFinalizer(A, F) ELSE A
    ELSE IF R.cd.status.infraID = "" THEN removeClusterDeploymentFinalizer(A, F)
    ELSE syncDeprovisionRequest(A, F, nsGone)

\* ------------------------------------------------------- image resolution
statusUpdate(R, status, F) ==
    LET A == Try(R, F, "statusUpdate") IN
    IF A.err THEN A
    ELSE Wrote([A EXCEPT !.cd.status = status], "statusUpdate")

setImageSetNotFoundCondition(R, isNotFound, F) ==
    LET status == IF isNotFound THEN "True" ELSE "False"
        conds == SetClusterDeploymentCondition(R.cd.status.imageSetCond, status)
    IN IF conds # R.cd.status.imageSetCond
       THEN [modified |-> TRUE,
             R |-> statusUpdate(R, [R.cd.status EXCEPT !.imageSetCond = conds], F)]
       ELSE [modified |-> FALSE, R |-> R]

\* getClusterImageSet that fails the pass when the image set is not found.
getClusterImageSet_NotFoundFails(R, is, F) ==
    IF R.cd.imageSetRef = "" THEN [imageSet |-> NoImageSet, modified |-> FALSE, R |-> R]
    ELSE LET A == Try(R, F, "getImageSet") IN
    IF A.err THEN [imageSet |-> NoImageSet, modified |-> FALSE, R |-> A]
    ELSE IF ~is.exists
         THEN [imageSet |-> NoImageSet, modified |-> FALSE, R |-> Err(A)]
    ELSE [imageSet |-> is, modified |-> FALSE, R |-> A]

\* Returns the image set (NoImageSet for nil), modified, and the pass.
getClusterImageSet(R, is, F) ==
    IF R.cd.imageSetRef = "" THEN [imageSet |-> NoImageSet, modified |-> FALSE, R |-> R]
    ELSE LET A == Try(R, F, "getImageSet") IN
    IF A.err THEN [imageSet |-> NoImageSet, modified |-> FALSE, R |-> A]
    ELSE IF ~is.exists
         THEN LET c == setImageSetNotFoundCondition(A, FALSE, F)
              IN [imageSet |-> NoImageSet, modified |-> c.modified, R |-> c.R]
    ELSE [imageSet |-> is, modified |-> FALSE, R |-> A]

\* The imageset job as the pass generates it, before it is looked up.
GenerateImageSetJob == [exists |-> TRUE, deleting |-> FALSE, finished |-> FALSE]

\* resolveInstallerImage that does not look at the image set's installer
\* image.
resolveInstallerImage_IgnoresImageSet(R, is, releaseImage, hiveImage, F) ==
    IF R.cd.images.installer # ""
    THEN statusUpdate(R, [R.cd.status EXCEPT !.installerImage = R.cd.images.installer], F)
    ELSE LET generated == GenerateImageSetJob
             A == [Try(R, F, "getISJob") EXCEPT !.seenISJob = Seen(R.isJob)]
    IN
    IF ~A.err /\ R.isJob.exists /\ generated.deleting THEN Requeue(A, defaultRequeueTime)
    ELSE IF ~A.err /\ R.isJob.exists /\ R.isJob.finished THEN
        LET B == Try(A, F, "deleteISJob") IN
        IF B.err THEN B
        ELSE Wrote([B EXCEPT !.isJob = ForegroundDelete(R.isJob)], "deleteISJob")
    ELSE IF ~A.err /\ ~R.isJob.exists THEN
        LET B == Try(A, F, "ensureSA") IN
        IF B.err THEN B
        ELSE LET C == Try(Wrote(B, "ensureSA"), F, "createISJob") IN
             IF C.err THEN C
             ELSE Observed(Wrote([C EXCEPT !.isJob = generated], "createISJob"),
                           "imageSetDelay")
    ELSE A

resolveInstallerImage(R, is, releaseImage, hiveImage, F) ==
    IF R.cd.images.installer # ""
    THEN statusUpdate(R, [R.cd.status EXCEPT !.installerImage = R.cd.images.installer], F)
    ELSE IF is.exists /\ is.installer # ""
    THEN statusUpdate(R, [R.cd.status EXCEPT !.installerImage = is.installer], F)
    ELSE LET generated == GenerateImageSetJob
             A == [Try(R, F, "getISJob") EXCEPT !.seenISJob = Seen(R.isJob)]
    IN
    \* the deletion timestamp tested is the generated job's
    IF ~A.err /\ R.isJob.exists /\ generated.deleting THEN Requeue(A, defaultRequeueTime)
    ELSE IF ~A.err /\ R.isJob.exists /\ R.isJob.finished THEN
        LET B == Try(A, F, "deleteISJob") IN
        IF B.err THEN B
        ELSE Wrote([B EXCEPT !.isJob = ForegroundDelete(R.isJob)], "deleteISJob")
    ELSE IF ~A.err /\ ~R.isJob.exists THEN
        LET B == Try(A, F, "ensureSA") IN
        IF B.err THEN B
        ELSE LET C == Try(Wrote(B, "ensureSA"), F, "createISJob") IN
             IF C.err THEN C
             ELSE Observed(Wrote([C EXCEPT !.isJob = generated], "createISJob"),
                           "imageSetDelay")
    ELSE A

\* ------------------------------------------------------- dependency gate
createManagedDNSZone(R, F) ==
    LET A == Try(R, F, "createZone") IN
    IF A.err THEN A
    ELSE Wrote([A EXCEPT !.zone = [exists |-> TRUE, deleting |-> FALSE,
                                   available |-> FALSE]], "createZone")

\* ensureManagedDNSZone reporting any existing zone as available, whatever
\* its Available condition.
ensureManagedDNSZone_IgnoresCondition(R, F) ==
    IF ~R.cd.aws THEN [available |-> FALSE, R |-> Err(R)]
    ELSE LET A == [Try(R, F, "getZone") EXCEPT !.seenZone = Seen(R.zone)] IN
    IF A.err THEN [available |-> FALSE, R |-> A]
    ELSE IF R.zone.exists THEN [available |-> TRUE, R |-> A]
    ELSE [available |-> FALSE, R |-> createManagedDNSZone(A, F)]

ensureManagedDNSZone(R, F) ==
    IF ~R.cd.aws THEN [available |-> FALSE, R |-> Err(R)]
    ELSE LET A == [Try(R, F, "getZone") EXCEPT !.seenZone = Seen(R.zone)] IN
    IF A.err THEN [available |-> FALSE, R |-> A]
    ELSE IF R.zone.exists THEN [available |-> R.zone.available, R |-> A]
    ELSE [available |-> FALSE, R |-> createManagedDNSZone(A, F)]

\* The job Create stores: the generated job with the hash annotation.
NewInstallJob(generated, jobHash) ==
    [exists |-> TRUE, deleting |-> FALSE, phase |-> "running", succeeded |-> FALSE,
     spec |-> generated.spec, hash |-> jobHash, hasGen |-> generated.hasGen,
     gen |-> generated.gen]

\* ------------------------------------------------- idempotency guard
\* updateOutdatedConfigurations that does not compare the job's generation.
updateOutdatedConfigurations_IgnoresJob(R, cdGeneration, existingJob, cfgMapGen, F) ==
    LET mapOld == cfgMapGen < cdGeneration
    IN IF mapOld
       THEN LET B == Try(R, F, "updateCfgMap") IN
            [changed |-> TRUE, R |-> IF B.err THEN B ELSE Wrote(B, "updateCfgMap")]
       ELSE [changed |-> FALSE, R |-> R]

\* Returns didGenerationChange and the pass. cfgMapGen is the generation
\* annotation of the generated config map.
updateOutdatedConfigurations(R, cdGeneration, existingJob, cfgMapGen, F) ==
    LET jobOld == existingJob.hasGen /\ existingJob.gen < cdGeneration
        mapOld == cfgMapGen < cdGeneration
        A == IF jobOld
             THEN LET T == Try(R, F, "deleteJob") IN
                  IF T.err THEN T
                  ELSE Wrote([T EXCEPT !.job = ForegroundDelete(R.job)], "deleteJob")
             ELSE R
    IN IF A.err THEN [changed |-> TRUE, R |-> A]
       ELSE IF mapOld
            THEN LET B == Try(A, F, "updateCfgMap") IN
                 [changed |-> TRUE, R |-> IF B.err THEN B ELSE Wrote(B, "updateCfgMap")]
       ELSE [changed |-> jobOld, R |-> A]

\* deleteJobOnHashChange taking a job without the hash annotation for an
\* unchanged one.
deleteJobOnHashChange_IgnoresMissing(R, existingJob, generatedHash, F) ==
    LET newJobNeeded == existingJob.hash # NoHash /\ existingJob.hash # generatedHash
    IN IF newJobNeeded
       THEN LET A == Try(R, F, "deleteJob") IN
            [deleted |-> TRUE,
             R |-> IF A.err THEN A
                   ELSE Wrote([A EXCEPT !.job = ForegroundDelete(R.job)], "deleteJob")]
       ELSE [deleted |-> FALSE, R |-> R]

\* deleteJobOnHashChange replacing the job at once: the delete is followed by
\* the create of the job with the generated hash, in the same pass.
deleteJobOnHashChange_Recreates(R, existingJob, generatedHash, F) ==
    LET newJobNeeded == existingJob.hash = NoHash \/ existingJob.hash # generatedHash
    IN IF newJobNeeded
       THEN LET A == Try(R, F, "deleteJob") IN
            [deleted |-> TRUE,
             R |-> IF A.err THEN A
                   ELSE Wrote(Wrote([A EXCEPT !.job = NewInstallJob(existingJob, generatedHash)],
                                    "deleteJob"), "createJob")]
       ELSE [deleted |-> FALSE, R |-> R]

\* Returns newJobNeeded and the pass.
deleteJobOnHashChange(R, existingJob, generatedHash, F) ==
    LET newJobNeeded == existingJob.hash = NoHash \/ existingJob.hash # generatedHash
    IN IF newJobNeeded
       THEN LET A == Try(R, F, "deleteJob") IN
            [deleted |-> TRUE,
             R |-> IF A.err THEN A
                   ELSE Wrote([A EXCEPT !.job = ForegroundDelete(R.job)], "deleteJob")]
       ELSE [deleted |-> FALSE, R |-> R]

\* ---------------------------------------------------- status convergence
\* fixupAdminKubeconfigSecret that updates the secret whether or not the
\* fix-up changed it.
fixupAdminKubeconfigSecret_AlwaysUpdates(R, F) ==
    LET rawData == IF R.secret.hasRaw THEN R.secret.raw ELSE R.secret.primary
        fixed == [exists |-> TRUE, hasRaw |-> TRUE, raw |-> rawData,
                  primary |-> FixupKubeconfig(rawData)]
        A == Try(R, F, "fixupKubeconfig")
    IN IF A.err THEN A
       ELSE LET B == Try(A, F, "updateSecret") IN
            IF B.err THEN B ELSE Wrote([B EXCEPT !.secret = fixed], "updateSecret")

\* fixupAdminKubeconfigSecret that takes the raw copy from the primary key on
\* every run.
fixupAdminKubeconfigSecret_OverwritesRaw(R, F) ==
    LET rawData == R.secret.primary
        fixed == [exists |-> TRUE, hasRaw |-> TRUE, raw |-> rawData,
                  primary |-> FixupKubeconfig(rawData)]
        A == Try(R, F, "fixupKubeconfig")
    IN IF A.err THEN A
       ELSE IF fixed = R.secret THEN A
       ELSE LET B == Try(A, F, "updateSecret") IN
            IF B.err THEN B ELSE Wrote([B EXCEPT !.secret = fixed], "updateSecret")

\* The secret gets a raw copy of the kubeconfig and a fixed-up primary one;
\* it is updated only if that changed it.
fixupAdminKubeconfigSecret(R, F) ==
    LET rawData == IF R.secret.hasRaw THEN R.secret.raw ELSE R.secret.primary
        fixed == [exists |-> TRUE, hasRaw |-> TRUE, raw |-> rawData,
                  primary |-> FixupKubeconfig(rawData)]
        A == Try(R, F, "fixupKubeconfig")
    IN IF A.err THEN A
       ELSE IF fixed = R.secret THEN A
       ELSE LET B == Try(A, F, "updateSecret") IN
            IF B.err THEN B ELSE Wrote([B EXCEPT !.secret = fixed], "updateSecret")

\* Returns the in-memory status and the pass.
setAdminKubeconfigStatus(R, status, F) ==
    IF status.consoleURL = "" \/ status.apiURL = ""
    THEN LET A == Try(R, F, "remoteClient") IN
         IF A.err THEN [status |-> status, R |-> A]
         ELSE LET B == Try(A, F, "getRoute") IN
              IF B.err THEN [status |-> [status EXCEPT !.apiURL = "https://api"], R |-> B]
              ELSE [status |-> [status EXCEPT !.apiURL = "https://api",
                                              !.consoleURL = "https://console"],
                    R |-> B]
    ELSE [status |-> status, R |-> R]

\* updateClusterDeploymentStatus that writes the status whether or not it
\* differs from the one fetched.
updateClusterDeploymentStatus_AlwaysPersists(R, status, origStatus, existingJob, F) ==
    LET s1 == IF existingJob.exists
              THEN [status EXCEPT !.installed = (existingJob.phase = "complete")]
              ELSE status
        s2 == IF s1.installed /\ s1.kubeconfigSecret = ""
              THEN [s1 EXCEPT !.kubeconfigSecret = AdminKubeconfigSecretName]
              ELSE s1
        persist(P, st) == statusUpdate(P, st, F)
    IN IF s2.kubeconfigSecret # "" THEN
           LET A == Try(R, F, "getSecret") IN
           IF A.err THEN A
           ELSE IF ~R.secret.exists THEN persist(A, s2)
           ELSE LET B == fixupAdminKubeconfigSecret(A, F) IN
                IF B.err THEN B
                ELSE LET k == setAdminKubeconfigStatus(B, s2, F) IN
                     IF k.R.err THEN k.R ELSE persist(k.R, k.status)
       ELSE persist(R, s2)

\* status is cd.Status of the in-memory copy, origStatus that of the object as
\* fetched, existingJob the job the pass found (NoJob for nil).
updateClusterDeploymentStatus(R, status, origStatus, existingJob, F) ==
    LET s1 == IF existingJob.exists
              THEN [status EXCEPT !.installed = (existingJob.phase = "complete")]
              ELSE status
        s2 == IF s1.installed /\ s1.kubeconfigSecret = ""
              THEN [s1 EXCEPT !.kubeconfigSecret = AdminKubeconfigSecretName]
              ELSE s1
        persist(P, st) == IF st # origStatus THEN statusUpdate(P, st, F) ELSE P
    IN IF s2.kubeconfigSecret # "" THEN
           LET A == Try(R, F, "getSecret") IN
           IF A.err THEN A
           ELSE IF ~R.secret.exists THEN persist(A, s2)
           ELSE LET B == fixupAdminKubeconfigSecret(A, F) IN
                IF B.err THEN B
                ELSE LET k == setAdminKubeconfigStatus(B, s2, F) IN
                     IF k.R.err THEN k.R ELSE persist(k.R, k.status)
       ELSE persist(R, s2)

\* ------------------------------------------------------------ the engine
\* The object store's Delete of the ClusterDeployment: with a finalizer the
\* object gets a deletion timestamp, without one it is removed.
DeleteClusterDeployment(c) == IF c.finalizer THEN [c EXCEPT !.deleted = TRUE] ELSE NoCD

\* existingJob.Annotations != nil
HasAnnotations(j) == j.hasGen \/ j.hash # NoHash

\* finishPass that leaves the status as it was fetched.
finishPass_NoStatus(R, status, origStatus, existingJob, firstInstalledObserve, requeueAfter, F) ==
    IF requeueAfter # 0 THEN Requeue(R, requeueAfter) ELSE R

\* finishPass that returns done whatever the expiry requeue time.
finishPass_NoRequeue(R, status, origStatus, existingJob, firstInstalledObserve, requeueAfter, F) ==
    LET A == updateClusterDeploymentStatus(R, status, origStatus, existingJob, F) IN
    IF A.err THEN A
    ELSE IF firstInstalledObserve
         THEN [A EXCEPT !.metrics = @ \cup {"installJobDuration",
                  "completedInstallRestarts", "clearProvisionUnderway",
                  "clustersInstalled"}]
         ELSE A

\* Lines 525-558: status convergence, completion observations, result.
finishPass(R, status, origStatus, existingJob, firstInstalledObserve, requeueAfter, F) ==
    LET A == updateClusterDeploymentStatus(R, status, origStatus, existingJob, F) IN
    IF A.err THEN A
    ELSE LET B == IF firstInstalledObserve
                  THEN [A EXCEPT !.metrics = @ \cup {"installJobDuration",
                           "completedInstallRestarts", "clearProvisionUnderway",
                           "clustersInstalled"}]
                  ELSE A
         IN IF requeueAfter # 0 THEN Requeue(B, requeueAfter) ELSE B

\* Lines 462-476: the install-config config map is created if absent.
ensureConfigMap(R, F) ==
    LET A == Try(R, F, "getCfgMap") IN
    IF A.err \/ R.cfgMap THEN A
    ELSE LET B == Try(A, F, "createCfgMap") IN
         IF B.err THEN B ELSE Wrote([B EXCEPT !.cfgMap = TRUE], "createCfgMap")

\* Lines 478-493: the install job is created.
createInstallJob(R, generated, jobHash, F) ==
    LET A == Try(R, F, "ensureSA") IN
    IF A.err THEN A
    ELSE LET B == Try(Wrote(A, "ensureSA"), F, "createJob") IN
         IF B.err THEN B
         ELSE Observed(Wrote([B EXCEPT !.job = NewInstallJob(generated, jobHash)],
                             "createJob"), "installDelay")

\* reconcileInstallJob that does not wait for a terminating job: it goes on
\* as it does with a live one.
reconcileInstallJob_IgnoresTerminating(R, hiveImage, releaseImage, requeueAfter, podRestarts, F) ==
    LET c == R.cd
        existingJob == R.job
        A == [Try(R, F, "getJob") EXCEPT !.seenJob = Seen(R.job)]
    IN IF A.err THEN A
    ELSE LET firstInstalledObserve ==
                 existingJob.exists /\ existingJob.succeeded /\ ~c.status.installed
    IN IF c.status.installed
       THEN finishPass(A, c.status, c.status, existingJob, firstInstalledObserve, requeueAfter, F)
    ELSE LET B == Try(A, F, "loadPullSecret") IN
    IF B.err THEN B
    ELSE LET generated == GenerateInstallerJob(c, hiveImage, releaseImage)
             jobHash == calculateJobSpecHash(generated)
             C == ensureConfigMap(B, F)
    IN IF C.err THEN C
    ELSE IF ~existingJob.exists THEN
        LET D == createInstallJob(C, generated, jobHash, F) IN
        IF D.err THEN D
        ELSE finishPass(D, c.status, c.status, NoJob, firstInstalledObserve, requeueAfter, F)
    ELSE LET D == [Try(C, F, "listPods") EXCEPT !.err = FALSE]
             status == IF "listPods" \in F THEN c.status
                       ELSE [c.status EXCEPT !.restarts = podRestarts]
             o == IF HasAnnotations(existingJob)
                  THEN updateOutdatedConfigurations(D, c.generation, existingJob,
                                                    generated.gen, F)
                  ELSE [changed |-> FALSE, R |-> D]
    IN IF o.changed \/ o.R.err THEN o.R
    ELSE LET d == deleteJobOnHashChange(o.R, existingJob, jobHash, F)
    IN IF d.deleted \/ d.R.err THEN d.R
    ELSE finishPass(d.R, status, c.status, existingJob, firstInstalledObserve, requeueAfter, F)

\* Lines 389-523: the install job and its config map.
reconcileInstallJob(R, hiveImage, releaseImage, requeueAfter, podRestarts, F) ==
    LET c == R.cd
        existingJob == R.job
        A == [Try(R, F, "getJob") EXCEPT !.seenJob = Seen(R.job)]
    IN IF A.err THEN A
    ELSE IF existingJob.exists /\ existingJob.deleting THEN Requeue(A, defaultRequeueTime)
    ELSE LET firstInstalledObserve ==
                 existingJob.exists /\ existingJob.succeeded /\ ~c.status.installed
    IN IF c.status.installed
       THEN finishPass(A, c.status, c.status, existingJob, firstInstalledObserve, requeueAfter, F)
    ELSE LET B == Try(A, F, "loadPullSecret") IN
    IF B.err THEN B
    ELSE LET generated == GenerateInstallerJob(c, hiveImage, releaseImage)
             jobHash == calculateJobSpecHash(generated)
             C == ensureConfigMap(B, F)
    IN IF C.err THEN C
    ELSE IF ~existingJob.exists THEN
        LET D == createInstallJob(C, generated, jobHash, F) IN
        IF D.err THEN D
        ELSE finishPass(D, c.status, c.status, NoJob, firstInstalledObserve, requeueAfter, F)
    ELSE LET D == [Try(C, F, "listPods") EXCEPT !.err = FALSE]
             status == IF "listPods" \in F THEN c.status
                       ELSE [c.status EXCEPT !.restarts = podRestarts]
             o == IF HasAnnotations(existingJob)
                  THEN updateOutdatedConfigurations(D, c.generation, existingJob,
                                                    generated.gen, F)
                  ELSE [changed |-> FALSE, R |-> D]
    IN IF o.changed \/ o.R.err THEN o.R
    ELSE LET d == deleteJobOnHashChange(o.R, existingJob, jobHash, F)
    IN IF d.deleted \/ d.R.err THEN d.R
    ELSE finishPass(d.R, status, c.status, existingJob, firstInstalledObserve, requeueAfter, F)

\* reconcileProvision that returns the expiry requeue time when the zone is
\* not available.
reconcileProvision_GateRequeues(R, is, hiveImage, releaseImage, requeueAfter, podRestarts, F) ==
    LET c == R.cd IN
    IF ~c.sshKey THEN Err(R)
    ELSE LET A == Try(R, F, "loadSSHKey") IN
    IF A.err THEN A
    ELSE IF c.status.installerImage = ""
    THEN resolveInstallerImage(A, is, releaseImage, hiveImage, F)
    ELSE LET z == IF c.manageDNS THEN ensureManagedDNSZone(A, F)
                  ELSE [available |-> TRUE, R |-> A]
    IN IF z.R.err THEN z.R
    ELSE IF ~z.available
         THEN (IF requeueAfter # 0 THEN Requeue(z.R, requeueAfter) ELSE z.R)
    ELSE reconcileInstallJob(z.R, hiveImage, releaseImage, requeueAfter, podRestarts, F)

\* reconcileProvision that does not require the SSH key reference.
reconcileProvision_NoSSHCheck(R, is, hiveImage, releaseImage, requeueAfter, podRestarts, F) ==
    LET c == R.cd IN
    LET A == Try(R, F, "loadSSHKey") IN
    IF A.err THEN A
    ELSE IF c.status.installerImage = ""
    THEN resolveInstallerImage(A, is, releaseImage, hiveImage, F)
    ELSE LET z == IF c.manageDNS THEN ensureManagedDNSZone(A, F)
                  ELSE [available |-> TRUE, R |-> A]
    IN IF z.R.err THEN z.R
    ELSE IF ~z.available THEN z.R
    ELSE reconcileInstallJob(z.R, hiveImage, releaseImage, requeueAfter, podRestarts, F)

\* Lines 360-387: SSH key, installer image, DNS gate, then the install job.
reconcileProvision(R, is, hiveImage, releaseImage, requeueAfter, podRestarts, F) ==
    LET c == R.cd IN
    IF ~c.sshKey THEN Err(R)
    ELSE LET A == Try(R, F, "loadSSHKey") IN
    IF A.err THEN A
    ELSE IF c.status.installerImage = ""
    THEN resolveInstallerImage(A, is, releaseImage, hiveImage, F)
    ELSE LET z == IF c.manageDNS THEN ensureManagedDNSZone(A, F)
                  ELSE [available |-> TRUE, R |-> A]
    IN IF z.R.err THEN z.R
    ELSE IF ~z.available THEN z.R
    ELSE reconcileInstallJob(z.R, hiveImage, releaseImage, requeueAfter, podRestarts, F)

\* reconcileFinalizer without the return after the finalizer is added: the
\* same pass goes on to provision.
reconcileFinalizer_FallsThrough(R, is, hiveImage, releaseImage, requeueAfter, podRestarts, F) ==
    LET A == IF ~R.cd.finalizer
             THEN Observed(addClusterDeploymentFinalizer(R, F), "clustersCreated")
             ELSE R
    IN IF A.err THEN A
       ELSE reconcileProvision(A, is, hiveImage, releaseImage, requeueAfter, podRestarts, F)

\* Lines 350-358: a live object without the finalizer gets it, and the pass
\* ends.
reconcileFinalizer(R, is, hiveImage, releaseImage, requeueAfter, podRestarts, F) ==
    IF ~R.cd.finalizer THEN
        LET A == addClusterDeploymentFinalizer(R, F)
        IN IF A.err THEN A ELSE Observed(A, "clustersCreated")
    ELSE reconcileProvision(R, is, hiveImage, releaseImage, requeueAfter, podRestarts, F)

\* reconcileLive without the return after the delete of an expired object:
\* the pass goes on to the finalizer and to provisioning.
reconcileLive_ExpiryFallsThrough(R, is, hiveImage, releaseImage, podRestarts, t, F) ==
    LET c == R.cd
        expiry == c.created + c.dur
        timed == c.deleteAfter = "ok" /\ c.created # 0
        requeueAfter == IF timed THEN expiry - t + expiryRequeueSlack ELSE 0
        A == IF timed /\ t > expiry
             THEN Wrote([R EXCEPT !.sawExpired = TRUE], "deleteCD")
             ELSE R
    IN IF c.deleteAfter = "bad" THEN Err(R)
    ELSE reconcileFinalizer(A, is, hiveImage, releaseImage, requeueAfter, podRestarts, F)

\* Lines 321-348: the delete-after annotation.
reconcileLive(R, is, hiveImage, releaseImage, podRestarts, t, F) ==
    LET c == R.cd
        expiry == c.created + c.dur
        timed == c.deleteAfter = "ok" /\ c.created # 0
        requeueAfter == IF timed THEN expiry - t + expiryRequeueSlack ELSE 0
    IN IF c.deleteAfter = "bad" THEN Err(R)
    ELSE IF timed /\ t > expiry THEN
        LET A == Try([R EXCEPT !.sawExpired = TRUE], F, "deleteCD") IN
        IF A.err THEN A
        ELSE Wrote([A EXCEPT !.cd = DeleteClusterDeployment(c)], "deleteCD")
    ELSE reconcileFinalizer(R, is, hiveImage, releaseImage, requeueAfter, podRestarts, F)

\* reconcile that runs the deletion workflow on every deleted object, with
\* the finalizer or without.
reconcile_NoFinalizerCheck(R0, S, F, podRestarts, t) ==
    LET m == migrateWildcardIngress(S.cd.ingress) IN
    IF m.migrated THEN
        LET A == Try(R0, F, "updateCD") IN
        IF A.err THEN A
        ELSE Wrote([A EXCEPT !.cd.ingress = m.ingress], "updateCD")
    ELSE LET g == getClusterImageSet(R0, S.imageSet, F) IN
    IF g.modified \/ g.R.err THEN g.R
    ELSE LET hiveImage == getHiveImage(S.cd, g.imageSet)
             releaseImage == getReleaseImage(S.cd, g.imageSet)
    IN IF S.cd.deleted
       THEN syncDeletedClusterDeployment(g.R, hiveImage, F, S.nsDeleting)
       ELSE reconcileLive(g.R, g.imageSet, hiveImage, releaseImage, podRestarts, t, F)

\* reconcile(request, cd, cdLog): S is the store, F the store calls that fail
\* in this pass, podRestarts what the pod listing reports, t the time.
reconcile(R0, S, F, podRestarts, t) ==
    LET m == migrateWildcardIngress(S.cd.ingress) IN
    IF m.migrated THEN
        LET A == Try(R0, F, "updateCD") IN
        IF A.err THEN A
        ELSE Wrote([A EXCEPT !.cd.ingress = m.ingress], "updateCD")
    ELSE LET g == getClusterImageSet(R0, S.imageSet, F) IN
    IF g.modified \/ g.R.err THEN g.R
    ELSE LET hiveImage == getHiveImage(S.cd, g.imageSet)
             releaseImage == getReleaseImage(S.cd, g.imageSet)
    IN IF S.cd.deleted THEN
        IF ~S.cd.finalizer THEN Observed(g.R, "clearUnderway")
        ELSE syncDeletedClusterDeployment(g.R, hiveImage, F, S.nsDeleting)
    ELSE reconcileLive(g.R, g.imageSet, hiveImage, releaseImage, podRestarts, t, F)

\* Reconcile(request): the fetch, then reconcile.
ReconcileRequest(S, F, podRestarts, t) ==
    LET A == Try(NewPass(S), F, "getCD") IN
    IF A.err \/ ~S.cd.exists THEN A
    ELSE reconcile(A, S, F, podRestarts, t)

\* The sets of calls that fail in one pass: none, any single call the pass
\* makes, or a failed deprovision-request create followed by a failed
\* namespace lookup or a failed finalizer removal.  made is the set of calls
\* of the pass in which nothing fails: a pass is the same up to its first
\* failed call.
FailChoices(made) ==
    {{}} \cup {{f} : f \in made}
         \cup IF "createReq" \in made
              THEN {{"createReq", "getNs"}, {"createReq", "updateCD"}}
              ELSE {}

\* What the history variable keeps of a pass.
PassOf(R) ==
    [ran |-> TRUE, fault |-> R.fault, err |-> R.err, requeue |-> R.requeue, writes |-> R.writes,
     metrics |-> R.metrics, seenJob |-> R.seenJob, seenZone |-> R.seenZone,
     seenReq |-> R.seenReq, seenISJob |-> R.seenISJob, sawExpired |-> R.sawExpired,
     orig |-> R.orig]

NoPass ==
    [ran |-> FALSE, fault |-> FALSE, err |-> FALSE, requeue |-> 0, writes |-> {}, metrics |-> {},
     seenJob |-> "notlooked", seenZone |-> "notlooked", seenReq |-> "notlooked",
     seenISJob |-> "notlooked", sawExpired |-> FALSE, orig |-> NoOrig]

\* ---------------------------------------------------------------- actions
\* The history record describes the pass that produced the current store: a
\* change made by anyone else clears it.
\* What the listing of the install pods can report: restarts only when an
\* install job has pods.
PodRestartCounts == IF job.exists THEN 0..MaxRestarts ELSE {0}

\* One invocation of Reconcile for the key.
Reconcile ==
    \E F \in FailChoices(ReconcileRequest(Store, {}, 0, now).calls),
       podRestarts \in PodRestartCounts :
      \E R \in {ReconcileRequest(Store, F, podRestarts, now)} :
        /\ cd' = R.cd
        /\ job' = R.job
        /\ cfgMap' = R.cfgMap
        /\ zone' = R.zone
        /\ req' = R.req
        /\ isJob' = R.isJob
        /\ secret' = R.secret
        /\ pass' = PassOf(R)
        /\ wasInstalled' = (wasInstalled \/ (R.cd.exists /\ R.cd.status.installed))
        /\ UNCHANGED <<objects, inflight, imageSet, nsDeleting, now>>

\* The work queue holds the key: something watched has changed since the last
\* pass (the object, a job, a zone, a deprovision request; also by the pass's
\* own writes), or the last pass asked for a requeue or returned an error.
ReconcileTriggered ==
    \/ ~pass.ran
    \/ pass.writes # {}
    \/ pass.requeue # 0
    \/ pass.err

\* One invocation of Reconcile, taken from the work queue, in which every
\* store call succeeds.
ReconcileSucceeding ==
    /\ ReconcileTriggered
    /\ \E podRestarts \in PodRestartCounts :
         \E R \in {ReconcileRequest(Store, {}, podRestarts, now)} :
           /\ cd' = R.cd
           /\ job' = R.job
           /\ cfgMap' = R.cfgMap
           /\ zone' = R.zone
           /\ req' = R.req
           /\ isJob' = R.isJob
           /\ secret' = R.secret
           /\ pass' = PassOf(R)
           /\ wasInstalled' = (wasInstalled \/ (R.cd.exists /\ R.cd.status.installed))
           /\ UNCHANGED <<objects, inflight, imageSet, nsDeleting, now>>

\* Time passes; only the expiry check of a live object reads the clock.
Tick ==
    /\ now < MaxTime
    /\ cd.exists /\ ~cd.deleted /\ cd.deleteAfter = "ok" /\ cd.created # 0
    /\ now' = now + 1
    /\ pass' = NoPass
    /\ UNCHANGED <<objects, inflight, cd, imageSet, job, cfgMap, zone, req, isJob, secret, nsDeleting, wasInstalled>>

\* The user deletes the ClusterDeployment.
UserDeletesCD ==
    /\ cd.exists /\ ~cd.deleted
    /\ cd' = DeleteClusterDeployment(cd)
    /\ pass' = NoPass
    /\ UNCHANGED <<objects, inflight, imageSet, job, cfgMap, zone, req, isJob, secret, nsDeleting, now, wasInstalled>>

\* The user edits the spec (here the operator image override): the
\* generation goes up.
UserEditsSpec ==
    /\ cd.exists /\ ~cd.deleted /\ cd.generation < MaxGen
    /\ cd' = [cd EXCEPT !.generation = @ + 1,
                        !.images.hive = IF @ = "" THEN "spec-hive" ELSE ""]
    /\ pass' = NoPass
    /\ UNCHANGED <<objects, inflight, imageSet, job, cfgMap, zone, req, isJob, secret, nsDeleting, now, wasInstalled>>

\* The namespace is deleted, and with it every object in it.
NamespaceDeleted ==
    /\ ~nsDeleting /\ cd.exists
    /\ nsDeleting' = TRUE
    /\ cd' = IF cd.deleted THEN cd ELSE DeleteClusterDeployment(cd)
    /\ pass' = NoPass
    /\ UNCHANGED <<objects, inflight, imageSet, job, cfgMap, zone, req, isJob, secret, now, wasInstalled>>

\* The install manager running in the job's pod records the identifiers of
\* the infrastructure it has begun to create.
InstallManagerReports ==
    /\ job.exists /\ job.phase = "running"
    /\ cd.exists /\ cd.status.infraID = ""
    /\ cd' = [cd EXCEPT !.status.infraID = "infra", !.status.clusterID = "cluster"]
    /\ pass' = NoPass
    /\ UNCHANGED <<objects, inflight, imageSet, job, cfgMap, zone, req, isJob, secret, nsDeleting, now, wasInstalled>>

\* The install job succeeds: the admin kubeconfig secret is there and the
\* job controller marks the job complete.
JobSucceeds ==
    /\ job.exists /\ job.phase = "running" /\ ~job.deleting
    /\ job' = [job EXCEPT !.phase = "complete", !.succeeded = TRUE]
    /\ secret' = IF secret.exists THEN secret
                 ELSE [exists |-> TRUE, hasRaw |-> FALSE, raw |-> "",
                       primary |-> RawKubeconfig]
    /\ pass' = NoPass
    /\ UNCHANGED <<objects, inflight, cd, imageSet, cfgMap, zone, req, isJob, nsDeleting, now, wasInstalled>>

JobFails ==
    /\ job.exists /\ job.phase = "running" /\ ~job.deleting
    /\ job' = [job EXCEPT !.phase = "failed"]
    /\ pass' = NoPass
    /\ UNCHANGED <<objects, inflight, cd, imageSet, cfgMap, zone, req, isJob, secret, nsDeleting, now, wasInstalled>>

\* The garbage collector finishes a foreground deletion of the install job.
GCJob ==
    /\ job.exists /\ job.deleting
    /\ job' = NoJob
    /\ pass' = NoPass
    /\ UNCHANGED <<objects, inflight, cd, imageSet, cfgMap, zone, req, isJob, secret, nsDeleting, now, wasInstalled>>

\* Somebody deletes the install job by hand, in the background (the job is
\* gone at once) or in the foreground (it stays, terminating, until the
\* garbage collector removes it).
UserDeletesJob ==
    /\ job.exists /\ ~job.deleting
    /\ job' \in {NoJob, ForegroundDelete(job)}
    /\ pass' = NoPass
    /\ UNCHANGED <<objects, inflight, cd, imageSet, cfgMap, zone, req, isJob, secret, nsDeleting, now, wasInstalled>>

\* The DNS zone controller reports the zone available.
ZoneBecomesAvailable ==
    /\ zone.exists /\ ~zone.deleting /\ ~zone.available
    /\ zone' = [zone EXCEPT !.available = TRUE]
    /\ pass' = NoPass
    /\ UNCHANGED <<objects, inflight, cd, imageSet, job, cfgMap, req, isJob, secret, nsDeleting, now, wasInstalled>>

\* The garbage collector marks the zone of a deleted owner for deletion.
GCMarksZone ==
    /\ zone.exists /\ ~zone.deleting /\ cd.exists /\ cd.deleted
    /\ zone' = ForegroundDelete(zone)
    /\ pass' = NoPass
    /\ UNCHANGED <<objects, inflight, cd, imageSet, job, cfgMap, req, isJob, secret, nsDeleting, now, wasInstalled>>

GCZone ==
    /\ zone.exists /\ zone.deleting
    /\ zone' = NoZone
    /\ pass' = NoPass
    /\ UNCHANGED <<objects, inflight, cd, imageSet, job, cfgMap, req, isJob, secret, nsDeleting, now, wasInstalled>>

\* The deprovision controller finishes the request.
ReqCompletes ==
    /\ req.exists /\ ~req.completed
    /\ req' = [req EXCEPT !.completed = TRUE]
    /\ pass' = NoPass
    /\ UNCHANGED <<objects, inflight, cd, imageSet, job, cfgMap, zone, isJob, secret, nsDeleting, now, wasInstalled>>

\* The imageset job finds the installer image and writes it to status.
ISJobSucceeds ==
    /\ isJob.exists /\ ~isJob.finished /\ ~isJob.deleting
    /\ isJob' = [isJob EXCEPT !.finished = TRUE]
    /\ cd' = IF cd.exists /\ cd.status.installerImage = ""
             THEN [cd EXCEPT !.status.installerImage = "resolved-installer"]
             ELSE cd
    /\ pass' = NoPass
    /\ UNCHANGED <<objects, inflight, imageSet, job, cfgMap, zone, req, secret, nsDeleting, now, wasInstalled>>

ISJobFails ==
    /\ isJob.exists /\ ~isJob.finished /\ ~isJob.deleting
    /\ isJob' = [isJob EXCEPT !.finished = TRUE]
    /\ pass' = NoPass
    /\ UNCHANGED <<objects, inflight, cd, imageSet, job, cfgMap, zone, req, secret, nsDeleting, now, wasInstalled>>

GCISJob ==
    /\ isJob.exists /\ isJob.deleting
    /\ isJob' = NoJob
    /\ pass' = NoPass
    /\ UNCHANGED <<objects, inflight, cd, imageSet, job, cfgMap, zone, req, secret, nsDeleting, now, wasInstalled>>

\* The user changes the installer image override in the spec.
UserEditsInstallerImage ==
    /\ cd.exists /\ ~cd.deleted /\ cd.generation < MaxGen
    /\ cd' = [cd EXCEPT !.generation = @ + 1,
                        !.images.installer = IF @ = "" THEN "spec-installer"
                                             ELSE "other-installer"]
    /\ pass' = NoPass
    /\ UNCHANGED <<objects, inflight, imageSet, job, cfgMap, zone, req, isJob, secret, nsDeleting, now, wasInstalled>>

\* The user sets preserveOnDelete; the store accepts spec changes on an
\* object that is being deleted too.
UserSetsPreserveOnDelete ==
    /\ cd.exists /\ ~cd.preserveOnDelete /\ cd.generation < MaxGen
    /\ cd' = [cd EXCEPT !.generation = @ + 1, !.preserveOnDelete = TRUE]
    /\ pass' = NoPass
    /\ UNCHANGED <<objects, inflight, imageSet, job, cfgMap, zone, req, isJob, secret, nsDeleting, now, wasInstalled>>

Next ==
    \/ Reconcile
    \/ UserDeletesCD
    \/ UserEditsSpec
    \/ NamespaceDeleted
    \/ InstallManagerReports
    \/ JobSucceeds
    \/ JobFails
    \/ GCJob
    \/ UserDeletesJob
    \/ ZoneBecomesAvailable
    \/ GCMarksZone
    \/ GCZone
    \/ ReqCompletes

\* ------------------------------------------------------------ first states
\* The store as the controller finds it when it starts.  The objects are the
\* tests' fixtures: testClusterDeployment and its variants, testInstallJob
\* and its variants, testDNSZone, testAvailableDNSZone, testClusterImageSet.
EmptyStatus ==
    [installed |-> FALSE, installerImage |-> "", infraID |-> "", clusterID |-> "",
     restarts |-> 0, kubeconfigSecret |-> "", apiURL |-> "", consoleURL |-> "",
     imageSetCond |-> "absent"]

\* testClusterDeployment(): finalizer, SSH key, AWS platform and secrets,
\* identifiers and installer image in status.
testClusterDeployment ==
    [exists |-> TRUE, deleted |-> FALSE, finalizer |-> TRUE, generation |-> 1,
     created |-> 0, deleteAfter |-> "none", dur |-> 0, ingress |-> << >>,
     sshKey |-> TRUE, manageDNS |-> FALSE, aws |-> TRUE, region |-> "us-east-1",
     creds |-> "aws-credentials", preserveOnDelete |-> FALSE, imageSetRef |-> "",
     images |-> [hive |-> "", release |-> "", installer |-> ""],
     status |-> [EmptyStatus EXCEPT !.infraID = "infra", !.clusterID = "cluster",
                                    !.installerImage = "installer-image"]]

\* testInstallJob(): the job generated for c, with its hash annotation.
testInstallJob(c) ==
    LET generated == GenerateInstallerJob(c, getHiveImage(c, NoImageSet),
                                          getReleaseImage(c, NoImageSet))
    IN NewInstallJob(generated, calculateJobSpecHash(generated))

\* The install jobs the tests start from: the generated one, one with another
\* hash, one without the hash annotation, one from an older generation, and
\* the completed one.
InitJobs(c) ==
    LET j == testInstallJob(c) IN
    {NoJob, j, [j EXCEPT !.hash = DifferentHash], [j EXCEPT !.hash = NoHash],
     [j EXCEPT !.gen = 0],
     [j EXCEPT !.phase = "complete", !.succeeded = TRUE]}

testDNSZone == [exists |-> TRUE, deleting |-> FALSE, available |-> FALSE]
testAvailableDNSZone == [testDNSZone EXCEPT !.available = TRUE]

testClusterImageSet ==
    [exists |-> TRUE, hive |-> "", release |-> "set-release", installer |-> ""]

\* Live objects with the finalizer attached, at any point of provisioning.
InitLive ==
    \E pres, dns, inst \in BOOLEAN :
        /\ cd = [testClusterDeployment EXCEPT
                    !.preserveOnDelete = pres, !.manageDNS = dns,
                    !.status.installed = inst,
                    !.status.infraID = IF inst THEN "infra" ELSE "",
                    !.status.clusterID = IF inst THEN "cluster" ELSE ""]
        /\ imageSet = NoImageSet
        /\ job \in InitJobs(cd)
        /\ zone \in IF dns THEN {NoZone, testDNSZone, testAvailableDNSZone} ELSE {NoZone}

\* Deleted objects: testDeletedClusterDeployment,
\* testDeletedClusterDeploymentWithoutFinalizer and their variants.
InitDeleted ==
    \E fin, pres, inst \in BOOLEAN, infra \in {"", "infra"} :
        /\ cd = [testClusterDeployment EXCEPT
                    !.deleted = TRUE, !.finalizer = fin,
                    !.preserveOnDelete = pres, !.status.installed = inst,
                    !.status.infraID = infra,
                    !.status.clusterID = IF infra = "" THEN "" ELSE "cluster"]
        /\ imageSet = NoImageSet
        /\ job \in {NoJob, testInstallJob(cd)}
        /\ zone = NoZone

\* Objects the user has just created (testClusterDeploymentWithoutFinalizer
\* and its variants): no finalizer, nothing in status, no children.
InitNewStore ==
    \E ing \in {<< >>, << <<"*", ".", "a">> >>},
       da \in {"none", "bad", "ok"}, created \in {0, 1},
       ref \in {"", "test-image-set"}, is \in {NoImageSet, testClusterImageSet},
       cond \in {"absent", "True"}, ssh, dns \in BOOLEAN :
        /\ cd = [testClusterDeployment EXCEPT
                    !.finalizer = FALSE, !.ingress = ing, !.deleteAfter = da,
                    !.dur = IF da = "ok" THEN 1 ELSE 0, !.created = created,
                    !.imageSetRef = ref, !.sshKey = ssh, !.manageDNS = dns,
                    !.status = [EmptyStatus EXCEPT !.imageSetCond = cond]]
        /\ imageSet = is
        /\ job = NoJob
        /\ zone = NoZone

\* What no first state has: the children only a pass creates.
InitRest ==
    /\ cfgMap = FALSE
    /\ req = NoReq
    /\ isJob = NoJob
    /\ secret = NoSecret
    /\ nsDeleting = FALSE
    /\ now = 1
    /\ pass = NoPass
    /\ objects = NoObjects
    /\ inflight = NoWorkers
    /\ wasInstalled = cd.status.installed

Init == (InitLive \/ InitDeleted) /\ InitRest

Spec == Init /\ [][Next]_vars

\* The life of a new object up to the start of its installation: the clock
\* runs, the imageset job does its work.
NextNew ==
    \/ Reconcile
    \/ Tick
    \/ UserDeletesCD
    \/ ISJobSucceeds
    \/ ISJobFails
    \/ GCISJob

InitNew == InitNewStore /\ InitRest

SpecNew == InitNew /\ [][NextNew]_vars

\* Installed objects whose ingress list holds any domains at all: every string
\* of up to MaxDomainLen characters, in lists of none, one
\* (testClusterDeploymentWithIngress) or two entries.
Domains == UNION {[1..k -> Chars] : k \in 0..MaxDomainLen}

IngressLists ==
    {<< >>} \cup {<<d>> : d \in Domains} \cup {<<d, e>> : d, e \in Domains}

testInstalledClusterDeployment ==
    [testClusterDeployment EXCEPT
        !.status.installed = TRUE,
        !.status.kubeconfigSecret = AdminKubeconfigSecretName,
        !.status.apiURL = "https://api", !.status.consoleURL = "https://console"]

InitIngress ==
    /\ cd \in {[testInstalledClusterDeployment EXCEPT !.ingress = ing] :
                   ing \in IngressLists}
    /\ imageSet = NoImageSet
    /\ job = NoJob
    /\ zone = NoZone
    /\ InitRest

NextIngress == Reconcile

SpecIngress == InitIngress /\ [][NextIngress]_vars

\* Clusters at the end of their installation whose admin kubeconfig secret
\* holds any data: absent, as the installer wrote it (testSecret), with the
\* raw copy, fixed up or not, or edited by hand.
Kubeconfigs == {RawKubeconfig, FixedKubeconfig, "edited-kubeconfig"}

Secrets ==
    {NoSecret}
    \cup {[exists |-> TRUE, hasRaw |-> FALSE, raw |-> "", primary |-> p] : p \in Kubeconfigs}
    \cup {[exists |-> TRUE, hasRaw |-> TRUE, raw |-> r, primary |-> p] :
              r, p \in Kubeconfigs}

InitSecret ==
    /\ \E inst, named \in BOOLEAN :
          /\ cd = [testClusterDeployment EXCEPT
                      !.status.installed = inst,
                      !.status.kubeconfigSecret =
                          IF named THEN AdminKubeconfigSecretName ELSE ""]
          /\ job \in {NoJob, testInstallJob(cd),
                      [testInstallJob(cd) EXCEPT !.phase = "complete", !.succeeded = TRUE]}
    /\ imageSet = NoImageSet
    /\ zone = NoZone
    /\ cfgMap = FALSE
    /\ req = NoReq
    /\ isJob = NoJob
    /\ secret \in Secrets
    /\ nsDeleting = FALSE
    /\ now = 1
    /\ pass = NoPass
    /\ objects = NoObjects
    /\ inflight = NoWorkers
    /\ wasInstalled = cd.status.installed

\* Somebody rewrites the primary key of the secret.
UserEditsSecret ==
    /\ secret.exists
    /\ \E p \in Kubeconfigs \ {secret.primary} : secret' = [secret EXCEPT !.primary = p]
    /\ pass' = NoPass
    /\ UNCHANGED <<objects, inflight, cd, imageSet, job, cfgMap, zone, req, isJob, nsDeleting, now, wasInstalled>>

NextSecret ==
    \/ Reconcile
    \/ JobSucceeds
    \/ UserEditsSecret

SpecSecret == InitSecret /\ [][NextSecret]_vars

\* ------------------------------------------- two objects in one namespace
\* Two ClusterDeployments in one namespace, reconciled by two workers
\* (MaxConcurrentReconciles) on one object store.  The store is held by key
\* in objects; a worker fetches what its pass reads, and its writes land
\* later, so that the other worker's fetch and writes may come in between.
PairNames == {"foo", "bar"}

\* serviceAccountName = "cluster-installer"
serviceAccountName == "cluster-installer"

\* apihelpers.GetResourceName(name, suffix): the name with "-suffix" appended.
GetResourceName(name, suffix) == <<name, suffix>>

\* dnsZoneName that leaves the ClusterDeployment's name out.
dnsZoneName_WithoutName(cdName) == GetResourceName("", "zone")

dnsZoneName(cdName) == GetResourceName(cdName, "zone")

\* The objects of one ClusterDeployment a pass looks at.
Slots == {"cd", "job", "cfgMap", "zone", "req", "isJob", "secret"}

\* The key (kind and name; the namespace is the one namespace) under which
\* the pass for the ClusterDeployment named n gets, creates, updates and
\* deletes each of them.
KeysOf(n) ==
    [cd     |-> <<"ClusterDeployment", <<n, "">> >>,
     job    |-> <<"Job", GetResourceName(n, "install")>>,
     cfgMap |-> <<"ConfigMap", GetResourceName(n, "install")>>,
     zone   |-> <<"DNSZone", dnsZoneName(n)>>,
     req    |-> <<"ClusterDeprovisionRequest", <<n, "">> >>,
     isJob  |-> <<"Job", GetResourceName(n, "imageset")>>,
     secret |-> <<"Secret", GetResourceName(n, "admin-kubeconfig")>>]

OwnKeys(n) == {KeysOf(n)[s] : s \in Slots}

\* SetupClusterInstallServiceAccount(r, cd.Namespace, cdLog): the service
\* account (with its role and binding) of the namespace.
ServiceAccountKey == <<"ServiceAccount", <<serviceAccountName, "">> >>

\* types.NamespacedName{Name: cd.Spec.ImageSet.Name}: cluster scoped.
ImageSetKey == <<"ClusterImageSet", <<"test-image-set", "">> >>

AllKeys == UNION {OwnKeys(n) : n \in PairNames} \cup {ServiceAccountKey, ImageSetKey}

\* What the pass for n reads from the keyed store.
StoreFor(n) ==
    [cd |-> objects[KeysOf(n).cd], imageSet |-> objects[ImageSetKey],
     job |-> objects[KeysOf(n).job], cfgMap |-> objects[KeysOf(n).cfgMap],
     zone |-> objects[KeysOf(n).zone], req |-> objects[KeysOf(n).req],
     isJob |-> objects[KeysOf(n).isJob], secret |-> objects[KeysOf(n).secret],
     nsDeleting |-> FALSE]

\* The writes of the pass R for n, which worked from S, applied to the store:
\* each object the pass changed is written under its key, and the service
\* account is there once the pass has set it up.
PutPass(n, S, R) ==
    [k \in AllKeys |->
        IF k = ServiceAccountKey THEN objects[k] \/ "ensureSA" \in R.writes
        ELSE IF \E s \in Slots : KeysOf(n)[s] = k /\ R[s] # S[s]
        THEN R[CHOOSE s \in Slots : KeysOf(n)[s] = k /\ R[s] # S[s]]
        ELSE objects[k]]

\* The objects of n replaced by those of T.
PutStore(n, T) ==
    [k \in AllKeys |->
        IF \E s \in Slots : KeysOf(n)[s] = k
        THEN T[CHOOSE s \in Slots : KeysOf(n)[s] = k]
        ELSE objects[k]]

\* A worker that holds no key.
Idle == [busy |-> FALSE, sa |-> FALSE, S |-> << >>]

\* A worker takes the key of n off the queue and fetches.
BeginReconcile ==
    \E n \in PairNames :
        /\ ~inflight[n].busy
        /\ inflight' = [inflight EXCEPT ![n] =
               [busy |-> TRUE, sa |-> objects[ServiceAccountKey], S |-> StoreFor(n)]]
        /\ UNCHANGED <<objects, cd, imageSet, job, cfgMap, zone, req, isJob, secret,
                       nsDeleting, now, pass, wasInstalled>>

\* The pass of the worker that holds n, from what it fetched to its return.
FinishReconcile ==
    \E n \in PairNames :
        /\ inflight[n].busy
        /\ \E S \in {inflight[n].S} :
             \E F \in FailChoices(ReconcileRequest(S, {}, 0, now).calls),
                podRestarts \in IF S.job.exists THEN 0..MaxRestarts ELSE {0} :
               \E R \in {ReconcileRequest(S, F, podRestarts, now)} :
                  objects' = PutPass(n, S, R)
        /\ inflight' = [inflight EXCEPT ![n] = Idle]
        /\ UNCHANGED <<cd, imageSet, job, cfgMap, zone, req, isJob, secret,
                       nsDeleting, now, pass, wasInstalled>>

\* What the collaborators and the user may do to the objects S of one
\* ClusterDeployment: the imageset job resolves the installer image, the zone
\* becomes available, the install job succeeds and leaves the admin
\* kubeconfig secret, the garbage collector finishes a foreground deletion of
\* the install job or the zone, the deprovision completes.
CollaboratorSteps(S) ==
    {[S EXCEPT !.isJob.finished = TRUE,
               !.cd = IF S.cd.exists /\ S.cd.status.installerImage = ""
                      THEN [S.cd EXCEPT !.status.installerImage = "resolved-installer"]
                      ELSE S.cd] :
        x \in IF S.isJob.exists /\ ~S.isJob.finished /\ ~S.isJob.deleting THEN {1} ELSE {}}
    \cup {[S EXCEPT !.zone.available = TRUE] :
        x \in IF S.zone.exists /\ ~S.zone.deleting /\ ~S.zone.available THEN {1} ELSE {}}
    \cup {[S EXCEPT !.job.phase = "complete", !.job.succeeded = TRUE,
                    !.secret = IF S.secret.exists THEN S.secret
                               ELSE [exists |-> TRUE, hasRaw |-> FALSE, raw |-> "",
                                     primary |-> RawKubeconfig]] :
        x \in IF S.job.exists /\ S.job.phase = "running" /\ ~S.job.deleting THEN {1} ELSE {}}
    \cup {[S EXCEPT !.job = NoJob] : x \in IF S.job.exists /\ S.job.deleting THEN {1} ELSE {}}
    \cup {[S EXCEPT !.zone = NoZone] : x \in IF S.zone.exists /\ S.zone.deleting THEN {1} ELSE {}}
    \cup {[S EXCEPT !.req.completed = TRUE] :
        x \in IF S.req.exists /\ ~S.req.completed THEN {1} ELSE {}}

\* A collaborator changes the objects of a ClusterDeployment whose key no
\* worker holds.
Collaborator ==
    \E n \in PairNames :
        /\ ~inflight[n].busy
        /\ \E T \in CollaboratorSteps(StoreFor(n)) : objects' = PutStore(n, T)
        /\ UNCHANGED <<inflight, cd, imageSet, job, cfgMap, zone, req, isJob, secret,
                       nsDeleting, now, pass, wasInstalled>>

\* The objects a ClusterDeployment of the pair starts with: one the user has
\* just created, with a managed zone and no installer image resolved; the
\* tests' testClusterDeployment, ready for its install job; a deleted one
\* whose install job is still there.
PairFixtures ==
    {[cd |-> [testClusterDeployment EXCEPT
                 !.finalizer = FALSE, !.manageDNS = TRUE, !.imageSetRef = "test-image-set",
                 !.status = EmptyStatus],
      job |-> NoJob, cfgMap |-> FALSE, zone |-> NoZone, req |-> NoReq,
      isJob |-> NoJob, secret |-> NoSecret],
     [cd |-> testClusterDeployment,
      job |-> NoJob, cfgMap |-> FALSE, zone |-> NoZone, req |-> NoReq,
      isJob |-> NoJob, secret |-> NoSecret],
     [cd |-> [testClusterDeployment EXCEPT !.deleted = TRUE],
      job |-> testInstallJob(testClusterDeployment), cfgMap |-> TRUE, zone |-> NoZone,
      req |-> NoReq, isJob |-> NoJob, secret |-> NoSecret]}

InitPair ==
    /\ \E first \in [PairNames -> PairFixtures] :
          objects = [k \in AllKeys |->
              IF k = ServiceAccountKey THEN FALSE
              ELSE IF k = ImageSetKey THEN testClusterImageSet
              ELSE LET n == CHOOSE m \in PairNames : k \in OwnKeys(m)
                   IN first[n][CHOOSE s \in Slots : KeysOf(n)[s] = k]]
    /\ inflight = [n \in PairNames |-> Idle]
    /\ cd = NoCD /\ imageSet = NoImageSet /\ job = NoJob /\ cfgMap = FALSE
    /\ zone = NoZone /\ req = NoReq /\ isJob = NoJob /\ secret = NoSecret
    /\ nsDeleting = FALSE /\ now = 1 /\ pass = NoPass /\ wasInstalled = FALSE

NextPair ==
    \/ BeginReconcile
    \/ FinishReconcile
    \/ Collaborator

SpecPair == InitPair /\ [][NextPair]_vars

\* Deleted objects of every kind the tests delete: with or without the
\* finalizer, with an infra ID or without, referencing an image set that is
\* there or is not, with a stale image-set condition, a managed zone, a
\* wildcard ingress domain, an install job.
InitDeletedStore ==
    \E fin, pres, inst, dns \in BOOLEAN, infra \in {"", "infra"},
       ref \in {"", "test-image-set"}, is \in {NoImageSet, testClusterImageSet},
       cond \in {"absent", "True"}, ing \in {<< >>, << <<"*", ".", "a">> >>} :
        /\ cd = [testClusterDeployment EXCEPT
                    !.deleted = TRUE, !.finalizer = fin,
                    !.preserveOnDelete = pres, !.manageDNS = dns,
                    !.ingress = ing, !.imageSetRef = ref,
                    !.status.installed = inst,
                    !.status.infraID = infra,
                    !.status.clusterID = IF infra = "" THEN "" ELSE "cluster",
                    !.status.imageSetCond = cond]
        /\ imageSet = is
        /\ job \in {NoJob, testInstallJob(cd)}
        /\ zone \in IF dns THEN {NoZone, testDNSZone} ELSE {NoZone}

InitDeletedAny == InitDeletedStore /\ InitRest

\* What happens around a deleted object: passes, garbage collection, the
\* deprovision controller, the namespace going away.
NextDeleted ==
    \/ Reconcile
    \/ UserSetsPreserveOnDelete
    \/ NamespaceDeleted
    \/ GCJob
    \/ GCMarksZone
    \/ GCZone
    \/ ReqCompletes

SpecDeleted == InitDeletedAny /\ [][NextDeleted]_vars

\* The same with every store call succeeding and the scheduling the
\* controller runtime and the cluster give: a queued key is reconciled, a
\* child under foreground deletion is collected, the deprovision controller
\* completes a request.
NextDeletedFair ==
    \/ ReconcileSucceeding
    \/ NamespaceDeleted
    \/ GCJob
    \/ GCMarksZone
    \/ GCZone
    \/ ReqCompletes

SpecDeletedFair ==
    /\ InitDeletedAny
    /\ [][NextDeletedFair]_vars
    /\ WF_vars(ReconcileSucceeding)
    /\ WF_vars(GCJob)
    /\ WF_vars(GCZone)
    /\ WF_vars(ReqCompletes)

\* Image sets with any of their three images given or left out.
ImageSets ==
    {NoImageSet} \cup
    {[exists |-> TRUE, hive |-> h, release |-> r, installer |-> i] :
        h \in {"", "set-hive"}, r \in {"", "set-release"}, i \in {"", "set-installer"}}

\* Objects about to be installed, with any combination of image overrides in
\* the spec, an image set referenced or not, there or not, and the installer
\* image resolved or not.
InitImagesStore ==
    \E hive \in {"", "spec-hive"}, release \in {"", "spec-release"},
       installer \in {"", "spec-installer"}, ref \in {"", "test-image-set"},
       is \in ImageSets, resolved \in {"", "installer-image"} :
        /\ cd = [testClusterDeployment EXCEPT
                    !.images = [hive |-> hive, release |-> release,
                                installer |-> installer],
                    !.imageSetRef = ref,
                    !.status = [EmptyStatus EXCEPT !.installerImage = resolved]]
        /\ imageSet = is
        /\ job = NoJob
        /\ zone = NoZone

InitImages == InitImagesStore /\ InitRest

NextImages ==
    \/ Reconcile
    \/ UserEditsSpec
    \/ UserEditsInstallerImage
    \/ ISJobSucceeds
    \/ ISJobFails
    \/ GCISJob

SpecImages == InitImages /\ [][NextImages]_vars

\* Live objects to be provisioned: an SSH key, no delete-after annotation, no
\* managed DNS; new (no finalizer) or with it, the installer image known or
\* to be resolved from the spec, the image set or the imageset job.
InitProvisionStore ==
    \E fin \in BOOLEAN, installer \in {"", "spec-installer"},
       ref \in {"", "test-image-set"}, is \in ImageSets,
       resolved \in {"", "installer-image"}, cond \in {"absent", "True"},
       ing \in {<< >>, << <<"*", ".", "a">> >>} :
        /\ cd = [testClusterDeployment EXCEPT
                    !.finalizer = fin, !.ingress = ing,
                    !.images.installer = installer, !.imageSetRef = ref,
                    !.status = [EmptyStatus EXCEPT !.installerImage = resolved,
                                                   !.imageSetCond = cond]]
        /\ imageSet = is
        /\ job = NoJob
        /\ zone = NoZone

InitProvision == InitProvisionStore /\ InitRest

\* Provisioning with every store call succeeding and nobody editing the spec.
NextProvisionFair ==
    \/ ReconcileSucceeding
    \/ ISJobSucceeds
    \/ ISJobFails
    \/ GCISJob
    \/ InstallManagerReports
    \/ JobSucceeds

\* ENABLED <<ReconcileSucceeding>>_vars as a state predicate: the key is
\* queued and the pass changes the store or the record of the last pass.
ReconcileEnabled ==
    /\ ReconcileTriggered
    /\ \E podRestarts \in PodRestartCounts :
         \E R \in {ReconcileRequest(Store, {}, podRestarts, now)} :
            \/ PassOf(R) # pass
            \/ <<R.cd, R.job, R.cfgMap, R.zone, R.req, R.isJob, R.secret>>
                  # <<cd, job, cfgMap, zone, req, isJob, secret>>
            \/ (wasInstalled \/ (R.cd.exists /\ R.cd.status.installed)) # wasInstalled

\* WF_vars(ReconcileSucceeding), written out: a key that stays queued is
\* reconciled.
ReconcileFairness ==
    []<>(~ReconcileEnabled) \/ []<><<ReconcileSucceeding>>_vars

\* The scheduling: a queued key is reconciled, an imageset job that is
\* retried eventually finds the installer image, one under deletion is
\* collected, the running install job succeeds.
SpecProvisionFair ==
    /\ InitProvision
    /\ [][NextProvisionFair]_vars
    /\ ReconcileFairness
    /\ SF_vars(ISJobSucceeds)
    /\ WF_vars(GCISJob)
    /\ WF_vars(JobSucceeds)

\* ------------------------------------------------------------- properties
\* The pass just made ran on a deleted object that had the finalizer.
DeletionPass == pass.ran /\ pass.orig.deleted /\ pass.orig.finalizer

\* C1: on a deleted ClusterDeployment with the finalizer, a pass creates the
\* deprovision request only if its install-job lookup returned not-found; a
\* pass that found the job (live or terminating) or deleted it creates no
\* request.
C1_DeletionOrdering ==
    DeletionPass =>
        /\ "createReq" \in pass.writes => pass.seenJob = "notfound"
        /\ pass.seenJob \in {"live", "terminating"} => "createReq" \notin pass.writes
        /\ ~({"deleteJob", "createReq"} \subseteq pass.writes)

\* A deletion pass that found no install job and created the request.
C1_Witness ==
    DeletionPass /\ pass.seenJob = "notfound" /\ "createReq" \in pass.writes /\ req.exists

\* C2: no pass both deletes and creates the install job; the job is created
\* only by a pass whose lookup found no job at all, and deleted only by a pass
\* whose lookup found a job that was not terminating.
C2_NoDeleteThenCreate ==
    pass.ran =>
        /\ ~({"deleteJob", "createJob"} \subseteq pass.writes)
        /\ "createJob" \in pass.writes => pass.seenJob = "notfound"
        /\ "deleteJob" \in pass.writes => pass.seenJob = "live"

\* A pass on a live object that deleted the install job it found, which is
\* now terminating.
C2_Witness ==
    /\ pass.ran /\ ~pass.orig.deleted /\ pass.seenJob = "live"
    /\ pass.writes = {"deleteJob"} /\ job.exists /\ job.deleting

\* The writes that create a child resource of the ClusterDeployment.
ChildCreations == {"createJob", "createCfgMap", "createZone", "createISJob"}

\* C3: a pass creates a child resource (install job, config map, DNS zone,
\* imageset job) only if the object it fetched already had the finalizer; the
\* pass that adds the finalizer writes nothing else and returns done, without
\* error or requeue.
C3_FinalizerBeforeChildren ==
    pass.ran =>
        /\ pass.writes \cap ChildCreations # {} => pass.orig.finalizer
        /\ "addFinalizer" \in pass.writes =>
               /\ pass.writes = {"addFinalizer"}
               /\ ~pass.err /\ pass.requeue = 0

\* A pass that added the finalizer to an object that had none.
C3_Witness ==
    /\ pass.ran /\ ~pass.orig.finalizer /\ "addFinalizer" \in pass.writes
    /\ cd.exists /\ cd.finalizer

\* The step is a pass, free of store faults, on a live object without the
\* finalizer.
FinalizerlessPass ==
    pass'.ran /\ ~pass'.fault /\ cd.exists /\ ~cd.deleted /\ ~cd.finalizer

\* The step adds the finalizer and changes nothing else in the store.
OnlyFinalizerAdded ==
    /\ cd' = [cd EXCEPT !.finalizer = TRUE]
    /\ pass'.writes = {"addFinalizer"}
    /\ UNCHANGED <<imageSet, job, cfgMap, zone, req, isJob, secret>>

\* C4 as stated: whatever its ingress domains, delete-after annotation and
\* image-set reference, a live object without the finalizer gets the
\* finalizer, and nothing else changes, in one pass.
C4_AsStated == [][FinalizerlessPass => OnlyFinalizerAdded]_vars

\* The delete-after annotation of c has passed at time t.
Expired(c, t) == c.deleteAfter = "ok" /\ c.created # 0 /\ t > c.created + c.dur

\* C4, amended: a live object without the finalizer that has no wildcard
\* ingress domain, no unparseable or expired delete-after annotation, and
\* an image-set reference that is empty or names an existing image set gets
\* the finalizer, and nothing else changes, in one pass free of store faults.
C4_FinalizerOnly ==
    [][(/\ FinalizerlessPass
        /\ ~migrateWildcardIngress(cd.ingress).migrated
        /\ cd.deleteAfter # "bad" /\ ~Expired(cd, now)
        /\ (cd.imageSetRef = "" \/ imageSet.exists))
       => OnlyFinalizerAdded]_vars

\* A pass added the finalizer to an object carrying a delete-after annotation
\* and a reference to an existing image set.
C4_Witness ==
    /\ pass.ran /\ ~pass.fault /\ ~pass.orig.finalizer /\ ~pass.orig.deleted
    /\ pass.writes = {"addFinalizer"}
    /\ cd.exists /\ cd.finalizer /\ cd.deleteAfter = "ok" /\ cd.created # 0
    /\ cd.imageSetRef # "" /\ imageSet.exists

\* C5: status.installed is monotonic: a step from a state whose persisted
\* status.installed is true never leads to a state where it is false.
C5_InstalledMonotonic ==
    [][(cd.exists /\ cd.status.installed /\ cd'.exists) => cd'.status.installed]_vars

\* C6: once a live ClusterDeployment has had status.installed true, no pass
\* deletes or modifies its existing install job.
C6_InstalledJobUntouched ==
    [][(pass'.ran /\ wasInstalled /\ cd.exists /\ ~cd.deleted /\ job.exists)
       => job' = job]_vars

\* The hash of the job a pass would generate in the current state.
GeneratedJobHash ==
    LET is == IF cd.imageSetRef = "" THEN NoImageSet ELSE imageSet
    IN calculateJobSpecHash(GenerateInstallerJob(cd, getHiveImage(cd, is),
                                                 getReleaseImage(cd, is)))

\* The hash annotation of the existing job is missing or differs.
NewJobNeeded == job.hash = NoHash \/ job.hash # GeneratedJobHash

\* The generation annotation of the existing job is older than the object.
JobOutdated == job.exists /\ job.hasGen /\ job.gen < cd.generation

\* The step is a pass without error on a live, not yet installed object.
InstallingPass ==
    pass'.ran /\ ~pass'.err /\ cd.exists /\ ~cd.deleted /\ ~cd.status.installed

\* What C7 says of a pass that found a live job (the hash decides, and a
\* deletion ends the pass) and of a pass that found none (it creates the job
\* with its hash annotation).
HashDecides ==
    /\ pass'.seenJob = "live" =>
           /\ "deleteJob" \in pass'.writes <=> NewJobNeeded
           /\ ~NewJobNeeded => job' = job
           /\ "deleteJob" \in pass'.writes =>
                  /\ job' = ForegroundDelete(job)
                  /\ pass'.writes \subseteq {"deleteJob", "createCfgMap"}
                  /\ pass'.requeue = 0 /\ cd' = cd
    /\ pass'.seenJob = "notfound" =>
           /\ "createJob" \in pass'.writes
           /\ job'.exists /\ job'.hash # NoHash /\ job'.hash = GeneratedJobHash

\* C7 as stated: for a not yet installed object with a live install job, the
\* pass deletes the job exactly when its hash annotation is missing or
\* differs from the generated hash, and then stops; a pass that finds no job
\* creates one with the hash annotation.
C7_AsStated == [][InstallingPass => HashDecides]_vars

\* C7, amended: the same, for a job whose generation annotation is not older
\* than the generation of the ClusterDeployment.
C7_HashGuard == [][(InstallingPass /\ ~JobOutdated) => HashDecides]_vars

\* A pass deleted a live job of the current generation whose hash annotation
\* was missing or different.
C7_Witness ==
    /\ pass.ran /\ ~pass.err /\ ~pass.orig.deleted /\ ~pass.orig.installed
    /\ pass.seenJob = "live" /\ "deleteJob" \in pass.writes
    /\ cd.exists /\ job.exists /\ job.deleting
    /\ NewJobNeeded /\ ~JobOutdated

\* The managed DNS zone exists and its Available condition is true.
ZoneAvailable == zone.exists /\ zone.available

\* The writes that act on the install job or its config map.
InstallJobActions == {"createJob", "deleteJob", "createCfgMap", "updateCfgMap"}

\* C8: with manageDNS set, a pass on a live object takes no install-job
\* action unless the zone is there and Available; a pass that finds the zone
\* absent creates it (not yet available) and writes nothing else; a pass that
\* finds it not Available writes nothing; the zone is created only when
\* absent.
C8_DNSGate ==
    [][(pass'.ran /\ cd.exists /\ ~cd.deleted /\ cd.manageDNS) =>
        /\ ~ZoneAvailable =>
               /\ pass'.writes \cap InstallJobActions = {}
               /\ pass'.seenJob = "notlooked"
               /\ job' = job /\ cfgMap' = cfgMap
        /\ (pass'.seenZone = "notfound" /\ ~pass'.err) =>
               /\ pass'.writes = {"createZone"}
               /\ zone'.exists /\ ~zone'.available /\ ~zone'.deleting
               /\ UNCHANGED <<cd, job, cfgMap, req, isJob, secret>>
        /\ (pass'.seenZone \in {"live", "terminating"} /\ ~zone.available) =>
               /\ pass'.writes = {}
               /\ UNCHANGED <<cd, job, cfgMap, zone, req, isJob, secret>>
        /\ "createJob" \in pass'.writes => ZoneAvailable
        /\ "createZone" \in pass'.writes => ~zone.exists]_vars

\* A pass on a live object with manageDNS found no zone and created it; no
\* install job exists.
C8_Witness ==
    /\ pass.ran /\ ~pass.err /\ pass.orig.manageDNS /\ ~pass.orig.deleted
    /\ pass.seenZone = "notfound" /\ pass.writes = {"createZone"}
    /\ zone.exists /\ ~zone.available /\ ~job.exists

\* C9: on a deleted ClusterDeployment with the finalizer, preserveOnDelete
\* and status.installed, no pass creates a deprovision request or looks for
\* one, and a pass that finds the zone and the job gone removes the finalizer,
\* with or without an infra ID.
C9_PreserveOnDelete ==
    (DeletionPass /\ pass.orig.preserve /\ pass.orig.installed) =>
        /\ "createReq" \notin pass.writes
        /\ pass.seenReq = "notlooked"
        /\ (pass.seenJob = "notfound" /\ ~pass.err) =>
               /\ pass.writes = {"removeFinalizer"}
               /\ ~cd.exists

\* A pass removed the finalizer of a preserved, installed cluster that has an
\* infra ID; no deprovision request exists.
C9_Witness ==
    /\ DeletionPass /\ pass.orig.preserve /\ pass.orig.installed
    /\ pass.orig.infraID # "" /\ pass.seenJob = "notfound"
    /\ "removeFinalizer" \in pass.writes /\ ~cd.exists /\ ~req.exists

\* A pass removed the finalizer of a deleted object with preserveOnDelete
\* that was never installed.
OverrideRemoval ==
    /\ DeletionPass /\ pass.orig.preserve /\ ~pass.orig.installed
    /\ "removeFinalizer" \in pass.writes

\* C10 as stated: on a deleted ClusterDeployment with preserveOnDelete that
\* was never installed, the finalizer is removed only after a deprovision
\* request was created: the pass removing it found the request.
C10_AsStated == OverrideRemoval => pass.seenReq = "found"

\* C10, amended: the same for an object with an infra ID, unless the pass
\* found no request, failed to create one, and the namespace is being
\* deleted.
C10_RequestBeforeRemoval ==
    (OverrideRemoval /\ pass.orig.infraID # "") =>
        \/ pass.seenReq = "found"
        \/ pass.seenReq = "notfound" /\ pass.fault /\ nsDeleting

\* A pass found the deprovision request of a preserved, never installed
\* cluster completed and removed the finalizer.
C10_Witness ==
    /\ OverrideRemoval /\ pass.orig.infraID # "" /\ pass.seenReq = "found"
    /\ req.exists /\ req.completed /\ ~cd.exists

HasWildcardPrefix(d) == Len(d) >= 2 /\ SubSeq(d, 1, 2) = <<"*", ".">>

\* C12: the migration of a pass keeps the number and order of the ingress
\* entries, turns each domain "*." \o rest into rest, leaves every other
\* domain as it was, and is persisted (the object is updated) exactly when
\* some domain changed; a list without wildcard entries is not written.
C12_MigrateWildcardIngress ==
    [][(pass'.ran /\ ~pass'.fault) =>
        /\ Len(cd'.ingress) = Len(cd.ingress)
        /\ \A i \in 1..Len(cd.ingress) :
              IF HasWildcardPrefix(cd.ingress[i])
              THEN cd.ingress[i] = <<"*", ".">> \o cd'.ingress[i]
              ELSE cd'.ingress[i] = cd.ingress[i]
        /\ ("updateCD" \in pass'.writes) <=> (cd'.ingress # cd.ingress)
        /\ (\A i \in 1..Len(cd.ingress) : ~HasWildcardPrefix(cd.ingress[i]))
               => cd' = cd]_vars

\* A pass rewrote a list of two entries and wrote nothing else.
C12_Witness ==
    /\ pass.ran /\ pass.writes = {"updateCD"}
    /\ cd.ingress = << <<"a", "*", ".">>, <<"a">> >>

\* C13: after a pass that ran without a failed call, no stored ingress domain
\* starts with the wildcard prefix.
C13_NoLeadingWildcard ==
    (pass.ran /\ ~pass.fault /\ cd.exists) =>
        \A i \in 1..Len(cd.ingress) : ~HasWildcardPrefix(cd.ingress[i])

\* The object is converged: finalizer attached, installed (now, or when the
\* pass just made began), installer image resolved, both URLs in status, the
\* admin kubeconfig secret fixed up.
Converged ==
    /\ cd.exists /\ ~cd.deleted /\ cd.finalizer
    /\ (cd.status.installed \/ pass.orig.installed)
    /\ cd.status.installerImage # ""
    /\ cd.status.apiURL # "" /\ cd.status.consoleURL # ""
    /\ secret.exists /\ secret.hasRaw /\ secret.primary = FixupKubeconfig(secret.raw)

\* C14: of two consecutive passes on a converged installed object, with
\* nothing else happening in between and no call failing, the second writes
\* nothing and leaves the store as the first left it.
C14_Idempotent ==
    [][(pass.ran /\ ~pass.fault /\ Converged /\ pass'.ran /\ ~pass'.fault) =>
        /\ pass'.writes = {}
        /\ UNCHANGED <<cd, imageSet, job, cfgMap, zone, req, isJob, secret>>]_vars

\* A pass found a converged object with its completed job and wrote nothing;
\* the secret carries the raw copy only an earlier pass stores.
C14_Witness ==
    /\ pass.ran /\ ~pass.fault /\ pass.writes = {} /\ Converged
    /\ pass.orig.installed
    /\ job.exists /\ job.phase = "complete"

\* C15: there is one deprovision request per ClusterDeployment (the request
\* carries its name), and a pass creates it only when the object is deleted,
\* has the finalizer and an infra ID, and no request exists; a pass on a live
\* object creates none.
C15_OneDeprovisionRequest ==
    [][("createReq" \in pass'.writes) =>
        /\ cd.exists /\ cd.deleted /\ cd.finalizer
        /\ cd.status.infraID # ""
        /\ ~req.exists
        /\ req' = generateDeprovisionRequest(cd)]_vars

\* A pass has created the request.
C15_Witness ==
    /\ pass.ran /\ "createReq" \in pass.writes /\ pass.seenReq = "notfound"
    /\ req.exists /\ req.infraID = "infra"

\* The pass over the store as it is, but with the referenced image set there.
PassWithImageSet ==
    ReconcileRequest([Store EXCEPT !.imageSet = testClusterImageSet], {}, 0, now)

\* C16: a pass on a deleted object whose image set is missing does what the
\* pass would do if the image set were there, so it creates the deprovision
\* request in the same states; the one exception is a stale not-found
\* condition, which the pass resets before stopping, so that the next pass is
\* no exception.
C16_MissingImageSetNoBlock ==
    [][(pass'.ran /\ ~pass'.fault /\ cd.exists /\ cd.deleted
            /\ cd.imageSetRef # "" /\ ~imageSet.exists) =>
        /\ (/\ cd.finalizer /\ cd.status.infraID # "" /\ ~job.exists /\ ~req.exists
            /\ ~(cd.preserveOnDelete /\ cd.status.installed)
            /\ ~(cd.manageDNS /\ zone.exists)
            /\ cd.status.imageSetCond # "True"
            /\ \A i \in 1..Len(cd.ingress) : ~HasWildcardPrefix(cd.ingress[i]))
               => "createReq" \in pass'.writes /\ req'.exists
        /\ \/ /\ pass'.writes = PassWithImageSet.writes
              /\ cd' = PassWithImageSet.cd
              /\ req' = PassWithImageSet.req
              /\ job' = PassWithImageSet.job
              /\ zone' = PassWithImageSet.zone
              /\ pass'.err = PassWithImageSet.err
              /\ pass'.requeue = PassWithImageSet.requeue
           \/ /\ cd.status.imageSetCond = "True"
              /\ pass'.writes = {"statusUpdate"}
              /\ cd' = [cd EXCEPT !.status.imageSetCond = "False"]
              /\ UNCHANGED <<job, zone, req>>]_vars

\* The request was created for an object whose image set is missing.
C16_Witness ==
    /\ pass.ran /\ "createReq" \in pass.writes /\ req.exists
    /\ cd.exists /\ cd.imageSetRef # "" /\ ~imageSet.exists

\* The first non-empty string of a chain, "" if there is none.
FirstNonEmpty(chain) ==
    IF \E i \in 1..Len(chain) : chain[i] # ""
    THEN chain[CHOOSE i \in 1..Len(chain) :
                   chain[i] # "" /\ \A j \in 1..(i - 1) : chain[j] = ""]
    ELSE ""

\* The images of the image set the object references, "" where the set is
\* not referenced, not there, or does not give the image.
FromImageSet ==
    IF cd.imageSetRef # "" /\ imageSet.exists
    THEN imageSet
    ELSE [exists |-> FALSE, hive |-> "", release |-> "", installer |-> ""]

GivenInstallerImage == FirstNonEmpty(<<cd.images.installer, FromImageSet.installer>>)

\* A pass on this store gets as far as the installer image and finds it
\* unset: a live object with the finalizer and an SSH key, nothing to migrate,
\* no expiry, no stale image-set condition to reset first.
AtInstallerImage ==
    /\ cd.exists /\ ~cd.deleted /\ cd.finalizer /\ cd.sshKey
    /\ cd.deleteAfter = "none"
    /\ \A i \in 1..Len(cd.ingress) : ~HasWildcardPrefix(cd.ingress[i])
    /\ ~(cd.imageSetRef # "" /\ ~imageSet.exists /\ cd.status.imageSetCond = "True")
    /\ cd.status.installerImage = ""

\* C18: a pass that finds status.installerImage unset and an installer image
\* in the spec or the image set writes that image to status, creates no
\* imageset job and leaves the install job alone; a pass that finds
\* status.installerImage set leaves it, and the imageset job, as they are.
C18_InstallerImage ==
    [][(pass'.ran /\ ~pass'.fault) =>
        /\ (AtInstallerImage /\ GivenInstallerImage # "") =>
              /\ cd' = [cd EXCEPT !.status.installerImage = GivenInstallerImage]
              /\ pass'.writes = {"statusUpdate"}
              /\ pass'.seenJob = "notlooked" /\ pass'.seenISJob = "notlooked"
              /\ UNCHANGED <<job, isJob, cfgMap, zone>>
        /\ (cd.exists /\ cd.status.installerImage # "") =>
              /\ cd'.exists => cd'.status.installerImage = cd.status.installerImage
              /\ pass'.writes \cap {"createISJob", "deleteISJob"} = {}
              /\ isJob' = isJob]_vars

\* The installer image came from the image set, no imageset job was made, and
\* a later pass created the install job with it.
C18_Witness ==
    /\ pass.ran /\ "createJob" \in pass.writes
    /\ cd.images.installer = "" /\ cd.status.installerImage = "set-installer"
    /\ job.spec[3] = "set-installer" /\ ~isJob.exists

\* C19: a pass on a deleted object without the finalizer changes no child
\* (job, config map, zone, deprovision request, imageset job, secret), does
\* not put the finalizer back, and, no call failing, returns without error
\* and without requeue.
C19_DeletedWithoutFinalizer ==
    [][(pass'.ran /\ cd.exists /\ cd.deleted /\ ~cd.finalizer) =>
        /\ UNCHANGED <<job, cfgMap, zone, req, isJob, secret>>
        /\ pass'.writes \subseteq {"updateCD", "statusUpdate"}
        /\ cd'.exists /\ ~cd'.finalizer /\ cd'.deleted
        /\ ~pass'.fault => (~pass'.err /\ pass'.requeue = 0)]_vars

\* Such a pass ran with an install job and an infra ID there, and wrote
\* nothing.
C19_Witness ==
    /\ pass.ran /\ ~pass.fault /\ pass.orig.deleted /\ ~pass.orig.finalizer
    /\ pass.orig.infraID # "" /\ job.exists /\ ~job.deleting /\ ~req.exists
    /\ pass.writes = {} /\ "clearUnderway" \in pass.metrics

\* C20: with every store call succeeding, children under deletion collected,
\* requests completed and queued keys reconciled, a deleted object that has
\* the finalizer eventually has it removed (and with it leaves the store).
C20_DeletionLiveness ==
    (cd.exists /\ cd.deleted /\ cd.finalizer) ~> (~cd.exists \/ ~cd.finalizer)

\* The finalizer came off after the job was collected, the request created
\* and completed.
C20_Witness ==
    /\ pass.ran /\ "removeFinalizer" \in pass.writes /\ pass.seenReq = "found"
    /\ pass.seenJob = "notfound" /\ req.exists /\ req.completed /\ ~cd.exists

\* C21: with every store call succeeding, the installer image resolving, the
\* running job succeeding and queued keys reconciled, a live object gets the
\* finalizer before any install job exists, then its install job, and then
\* status.installed is persisted as true.
C21_ProvisionLiveness ==
    /\ [](job.exists => cd.finalizer)
    /\ <>(cd.finalizer /\ job.exists /\ job.phase = "complete" /\ cd.status.installed)

\* The pass that first saw the job succeeded persisted installed; the
\* installer image had come from the imageset job.
C21_Witness ==
    /\ pass.ran /\ "statusUpdate" \in pass.writes /\ ~pass.orig.installed
    /\ "clustersInstalled" \in pass.metrics
    /\ cd.status.installed /\ cd.status.installerImage = "resolved-installer"
    /\ job.exists /\ job.phase = "complete"

\* What a step that removes the finalizer starts from and sees: a deleted
\* object with the finalizer, no managed zone, no install job.
RemovalStep ==
    /\ cd.exists /\ cd.deleted /\ cd.finalizer
    /\ cd.manageDNS => (~zone.exists /\ pass'.seenZone = "notfound")
    /\ ~job.exists /\ pass'.seenJob = "notfound"

\* The four grounds for removing the finalizer.
RemovalGround ==
    \/ cd.preserveOnDelete /\ cd.status.installed
    \/ cd.status.infraID = ""
    \/ req.exists /\ req.completed /\ pass'.seenReq = "found"
    \/ ~req.exists /\ nsDeleting /\ pass'.fault /\ "createReq" \notin pass'.writes

\* C22 as stated: the finalizer is removed only by a pass on a deleted object
\* that saw no managed zone and no install job and had one of the four
\* grounds, and never while a deprovision request exists that is not
\* completed.
C22_AsStated ==
    [][("removeFinalizer" \in pass'.writes) =>
        /\ RemovalStep
        /\ RemovalGround
        /\ ~(req.exists /\ ~req.completed)]_vars

\* C22, amended: the same, but a request that is not completed stops the
\* removal only where preserveOnDelete with installed does not apply.
C22_FinalizerRemoval ==
    [][("removeFinalizer" \in pass'.writes) =>
        /\ RemovalStep
        /\ RemovalGround
        /\ (req.exists /\ ~req.completed) =>
               (cd.preserveOnDelete /\ cd.status.installed)]_vars

\* The finalizer was removed after a failed create of the request in a
\* namespace that is being deleted.
C22_Witness ==
    /\ pass.ran /\ "removeFinalizer" \in pass.writes /\ pass.fault
    /\ pass.seenReq = "notfound" /\ pass.seenJob = "notfound"
    /\ nsDeleting /\ ~req.exists /\ ~cd.exists

\* A pass on this store enters the deletion workflow: a deleted object with
\* the finalizer, nothing to migrate, no stale image-set condition to reset.
AtDeletionWorkflow ==
    /\ cd.exists /\ cd.deleted /\ cd.finalizer
    /\ \A i \in 1..Len(cd.ingress) : ~HasWildcardPrefix(cd.ingress[i])
    /\ ~(cd.imageSetRef # "" /\ ~imageSet.exists /\ cd.status.imageSetCond = "True")

\* C23: in the deletion workflow with manageDNS, a zone without deletion
\* timestamp is force-deleted and the pass asks for a requeue after
\* defaultRequeueTime; a terminating zone makes the pass ask for the same
\* requeue and write nothing; either way the pass does nothing else; with no
\* zone the pass goes on to look for the install job.
C23_ZoneTeardown ==
    [][(pass'.ran /\ ~pass'.fault /\ AtDeletionWorkflow /\ cd.manageDNS) =>
        IF zone.exists /\ ~zone.deleting THEN
            /\ zone' = ForegroundDelete(zone)
            /\ pass'.writes = {"deleteZone"}
            /\ pass'.requeue = defaultRequeueTime
            /\ pass'.seenJob = "notlooked"
            /\ UNCHANGED <<cd, job, req>>
        ELSE IF zone.exists THEN
            /\ pass'.writes = {}
            /\ pass'.requeue = defaultRequeueTime
            /\ pass'.seenJob = "notlooked"
            /\ UNCHANGED <<cd, job, req, zone>>
        ELSE pass'.seenJob # "notlooked"]_vars

\* The store calls that write: creates, updates, deletes, status updates.
WriteCalls ==
    {"updateCD", "statusUpdate", "deleteCD", "createJob", "deleteJob",
     "createCfgMap", "updateCfgMap", "ensureSA", "createZone", "deleteZone",
     "createReq", "createISJob", "deleteISJob", "updateSecret"}

\* C24: a pass in which a write fails returns an error, unless the write is
\* the create of the deprovision request and the namespace is being deleted.
\* Stated of every pass the store of a reachable state can get.
C24_WriteErrorsAbort ==
    \A podRestarts \in PodRestartCounts :
        \A F \in FailChoices(ReconcileRequest(Store, {}, podRestarts, now).calls) :
        \A R \in {ReconcileRequest(Store, F, podRestarts, now)} :
            (F \cap WriteCalls # {} /\ ~("createReq" \in F /\ nsDeleting)) => R.err

\* C25: a pass without a failed call on an object that references a missing
\* image set leaves the ClusterImageSetNotFound condition with status True,
\* and when the condition was not True before, the status update that sets it
\* is the only write of the pass.
C25_NotFoundCondition ==
    [][(pass'.ran /\ ~pass'.fault /\ cd.exists
            /\ cd.imageSetRef # "" /\ ~imageSet.exists
            /\ \A i \in 1..Len(cd.ingress) : ~HasWildcardPrefix(cd.ingress[i])) =>
        /\ cd'.exists
        /\ cd'.status.imageSetCond = "True"
        /\ cd.status.imageSetCond # "True" => pass'.writes = {"statusUpdate"}]_vars

\* C26: a pass without a failed call that looks the imageset job up acts on
\* it by the state it finds: absent, it ensures the service account and
\* creates the job; finished and not terminating, it deletes the job in the
\* foreground; running, it writes nothing; terminating, it writes nothing and
\* requeues after defaultRequeueTime. It creates no job while one exists and
\* does not create and delete in one pass.
C26_ResolverJob ==
    [][(pass'.ran /\ ~pass'.fault /\ pass'.seenISJob # "notlooked") =>
        /\ pass'.seenISJob = "notfound" =>
              pass'.writes = {"ensureSA", "createISJob"} /\ isJob'.exists
        /\ (pass'.seenISJob = "live" /\ isJob.finished) =>
              pass'.writes = {"deleteISJob"} /\ isJob'.exists /\ isJob'.deleting
        /\ (pass'.seenISJob = "live" /\ ~isJob.finished) =>
              pass'.writes = {} /\ isJob' = isJob
        /\ pass'.seenISJob = "terminating" =>
              /\ pass'.writes = {} /\ isJob' = isJob
              /\ pass'.requeue = defaultRequeueTime /\ ~pass'.err
        /\ "createISJob" \in pass'.writes => ~isJob.exists
        /\ ~({"createISJob", "deleteISJob"} \subseteq pass'.writes)]_vars

\* C27: a pass without a failed call on a live object that finds the install
\* job terminating returns requeue after defaultRequeueTime without error
\* and writes nothing: the object, the job, the config map and the other
\* children are as they were.
C27_TerminatingJobWaits ==
    [][(pass'.ran /\ ~pass'.fault /\ cd.exists /\ ~cd.deleted
            /\ pass'.seenJob = "terminating") =>
        /\ pass'.requeue = defaultRequeueTime
        /\ ~pass'.err
        /\ pass'.writes = {}
        /\ UNCHANGED <<cd, job, cfgMap, zone, req, isJob, secret>>]_vars

\* The pass waited for the terminating job of an installed cluster, with an
\* expiry ahead that would have given another requeue time.
C27_Witness ==
    /\ pass.ran /\ ~pass.fault /\ pass.seenJob = "terminating"
    /\ pass.requeue = defaultRequeueTime
    /\ cd.exists /\ ~cd.deleted /\ cd.status.installed
    /\ job.exists /\ job.deleting

\* C28: with manageDNS set, a pass without a failed call on a live object that
\* looks the zone up and finds it absent or not Available returns done: no
\* error and no requeue time, whatever the expiry.
C28_GateNoRequeue ==
    [][(pass'.ran /\ ~pass'.fault /\ cd.exists /\ ~cd.deleted /\ cd.manageDNS
            /\ pass'.seenZone # "notlooked"
            /\ (~zone.exists \/ ~zone.available)) =>
        /\ pass'.requeue = 0
        /\ ~pass'.err]_vars

\* The pass created the zone and returned done for an object whose expiry,
\* still ahead, had given it a requeue time.
C28_Witness ==
    /\ pass.ran /\ ~pass.fault /\ pass.seenZone = "notfound"
    /\ pass.writes = {"createZone"} /\ pass.requeue = 0
    /\ cd.exists /\ ~cd.deleted /\ cd.manageDNS
    /\ cd.deleteAfter = "ok" /\ cd.created # 0 /\ now <= cd.created + cd.dur
    /\ zone.exists /\ ~zone.available

\* The object is live and its delete-after expiry, valid and counted from a
\* creation time that is set, has not passed.
ExpiryAhead ==
    /\ cd.exists /\ ~cd.deleted
    /\ cd.deleteAfter = "ok" /\ cd.created # 0 /\ now <= cd.created + cd.dur

\* The time that remains until the expiry, and the slack.
ExpiryRequeue == cd.created + cd.dur - now + expiryRequeueSlack

\* C29, as stated: every pass on an object whose expiry is ahead that returns
\* without error returns the strictly positive expiry requeue time.
C29_AsStated ==
    [][(pass'.ran /\ ~pass'.err /\ ExpiryAhead) =>
        pass'.requeue > 0 /\ pass'.requeue = ExpiryRequeue]_vars

\* C29, amended: a pass on an object whose expiry is ahead that returns
\* without error returns the expiry requeue time when it got past the
\* install-job lookup (job absent or live) and deleted no job; a pass that
\* found the job terminating returns defaultRequeueTime, and every pass that
\* stopped earlier or deleted the job returns no requeue time.
C29_ExpiryRequeue ==
    [][(pass'.ran /\ ~pass'.err /\ ExpiryAhead) =>
        pass'.requeue =
            IF pass'.seenJob \in {"notfound", "live"} /\ "deleteJob" \notin pass'.writes
            THEN ExpiryRequeue
            ELSE IF pass'.seenJob = "terminating" THEN defaultRequeueTime
            ELSE 0]_vars

\* A pass that found the install job running returned the expiry requeue
\* time.
C29_Witness ==
    /\ pass.ran /\ ~pass.err /\ pass.seenJob = "live"
    /\ ExpiryAhead /\ pass.requeue = ExpiryRequeue /\ pass.requeue > 0
    /\ job.exists /\ ~job.deleting

CompletionObservations ==
    {"installJobDuration", "completedInstallRestarts", "clustersInstalled"}

\* C31: a pass emits the completion observations exactly when it takes the
\* persisted status.installed from false to true, and it emits them for an
\* object whose status.installed has never been true before: once per
\* ClusterDeployment.
C31_CompletionObservedOnce ==
    [][pass'.ran =>
        /\ (pass'.metrics \cap CompletionObservations # {}) <=>
              (cd.exists /\ ~cd.status.installed /\ cd'.exists /\ cd'.status.installed)
        /\ (pass'.metrics \cap CompletionObservations # {}) => ~wasInstalled]_vars

\* The pass on a live object got to the status convergence: it looked the
\* install job up, did not find it terminating and did not delete it.
ReachedConvergence ==
    /\ pass.ran /\ ~pass.orig.deleted
    /\ pass.seenJob \in {"notfound", "live"}
    /\ "deleteJob" \notin pass.writes

\* C32: a pass without a failed call that gets to the status convergence
\* writes the status exactly when the status it leaves differs from the one
\* it fetched; a pass on a live object that stops before (job deleted on a
\* hash or generation change, job terminating, zone not ready) writes no
\* status and leaves the persisted status as it was, whatever restart count
\* the pod listing gave it.
C32_StatusWrite ==
    [][(pass'.ran /\ ~pass'.fault /\ cd.exists /\ ~cd.deleted) =>
        /\ ReachedConvergence' =>
              (("statusUpdate" \in pass'.writes) <=> (cd'.status # cd.status))
        /\ (\/ "deleteJob" \in pass'.writes
            \/ pass'.seenJob = "terminating"
            \/ (pass'.seenZone # "notlooked" /\ ~ZoneAvailable)) =>
              /\ "statusUpdate" \notin pass'.writes
              /\ cd'.exists /\ cd'.status = cd.status]_vars

\* A pass got to the status convergence with the status it had fetched and
\* wrote nothing.
C32_Witness ==
    /\ ReachedConvergence /\ ~pass.fault /\ pass.seenJob = "live"
    /\ pass.writes = {} /\ cd.exists /\ cd.status.installed

\* C33: a pass never changes a raw key that is there; a pass that updates the
\* secret leaves the raw key, a copy of the primary data when there was none
\* before, and the primary key equal to the fix-up of the raw key; a pass
\* that does not update the secret leaves it as it was; a secret whose
\* primary key is the fix-up of its raw key is not updated; and after a pass
\* without a failed call that got to the status convergence with a secret
\* name in the status, the primary key is the fix-up of the raw key.
C33_FixupIdempotent ==
    [][(pass'.ran /\ secret.exists) =>
        /\ secret'.exists
        /\ secret.hasRaw => (secret'.hasRaw /\ secret'.raw = secret.raw)
        /\ "updateSecret" \in pass'.writes =>
              /\ secret' # secret
              /\ secret'.hasRaw
              /\ secret'.primary = FixupKubeconfig(secret'.raw)
              /\ ~secret.hasRaw => secret'.raw = secret.primary
        /\ "updateSecret" \notin pass'.writes => secret' = secret
        /\ (secret.hasRaw /\ secret.primary = FixupKubeconfig(secret.raw)) =>
              "updateSecret" \notin pass'.writes
        /\ (~pass'.fault /\ ReachedConvergence' /\ cd'.exists
                /\ cd'.status.kubeconfigSecret # "") =>
              secret'.hasRaw /\ secret'.primary = FixupKubeconfig(secret'.raw)]_vars

\* A pass restored the primary key of a secret that had been edited after
\* its fix-up, and kept the raw key.
C33_Witness ==
    /\ pass.ran /\ ~pass.fault /\ pass.writes = {"updateSecret"}
    /\ secret.exists /\ secret.hasRaw
    /\ secret.raw = RawKubeconfig /\ secret.primary = FixedKubeconfig

\* C34: a pass without a failed call in the deletion workflow that finds no
\* managed zone and no install job, with the preserve shortcut not applying
\* and no infra ID in the status, removes the finalizer (the object leaves
\* the store), does not look for a deprovision request and creates none; no
\* pass after the object has left the store writes anything.
C34_NoInfraNoRequest ==
    [][pass'.ran =>
        /\ (/\ ~pass'.fault /\ AtDeletionWorkflow
            /\ cd.manageDNS => ~zone.exists
            /\ ~job.exists
            /\ ~(cd.preserveOnDelete /\ cd.status.installed)
            /\ cd.status.infraID = "") =>
              /\ pass'.writes = {"removeFinalizer"}
              /\ ~cd'.exists
              /\ pass'.seenReq = "notlooked"
              /\ req' = req
        /\ ~cd.exists =>
              /\ pass'.writes = {}
              /\ UNCHANGED <<cd, job, cfgMap, zone, req, isJob, secret>>]_vars

\* The finalizer came off an object without infra ID that preserveOnDelete
\* did not cover, and no request was made.
C34_Witness ==
    /\ pass.ran /\ ~pass.fault /\ pass.writes = {"removeFinalizer"}
    /\ pass.orig.deleted /\ pass.orig.finalizer /\ pass.orig.infraID = ""
    /\ ~(pass.orig.preserve /\ pass.orig.installed)
    /\ pass.seenJob = "notfound" /\ pass.seenReq = "notlooked"
    /\ ~cd.exists /\ ~req.exists

\* C35: in a namespace that is being deleted, every pass that tries to create
\* the deprovision request and fails removes the finalizer (the object
\* leaves the store), creates no request and returns done without error; if
\* the namespace lookup or the finalizer removal fails as well, the pass
\* returns an error and writes nothing.  Stated of every pass the store of a
\* reachable state can get.
C35_GiveUpInDeletedNamespace ==
    nsDeleting =>
        \A F \in FailChoices(ReconcileRequest(Store, {}, 0, now).calls) :
            \A R \in {ReconcileRequest(Store, F, 0, now)} :
                "createReq" \in F =>
                    IF F = {"createReq"}
                    THEN /\ ~R.err /\ R.requeue = 0
                         /\ R.writes = {"removeFinalizer"}
                         /\ ~R.cd.exists
                         /\ R.req = req /\ ~req.exists
                    ELSE /\ R.err
                         /\ R.writes = {}
                         /\ R.cd = cd /\ R.req = req

\* A pass in a namespace being deleted failed to create the request, gave up
\* and removed the finalizer.
C35_Witness ==
    /\ pass.ran /\ pass.fault /\ ~pass.err /\ pass.seenReq = "notfound"
    /\ pass.writes = {"removeFinalizer"}
    /\ pass.orig.infraID # "" /\ nsDeleting /\ ~cd.exists /\ ~req.exists

\* C36: the deprovision request a pass creates carries the infra ID and
\* cluster ID of the object's status and the region and credentials
\* reference of its spec, and is not completed; no pass changes or removes a
\* request that exists; and a pass without a failed call that finds the
\* request not completed writes nothing.
C36_RequestContents ==
    [][pass'.ran =>
        /\ "createReq" \in pass'.writes =>
              /\ cd.exists /\ ~req.exists
              /\ req' = [exists |-> TRUE, completed |-> FALSE,
                         infraID |-> cd.status.infraID,
                         clusterID |-> cd.status.clusterID,
                         region |-> cd.region, creds |-> cd.creds]
        /\ req.exists => req' = req
        /\ (~pass'.fault /\ pass'.seenReq = "found" /\ ~req.completed) =>
              /\ pass'.writes = {}
              /\ UNCHANGED <<cd, job, cfgMap, zone, req, isJob, secret>>]_vars

\* A pass found the request it had created earlier, not yet completed, and
\* wrote nothing.
C36_Witness ==
    /\ pass.ran /\ ~pass.fault /\ pass.seenReq = "found" /\ pass.writes = {}
    /\ cd.exists /\ cd.deleted /\ cd.finalizer
    /\ req.exists /\ ~req.completed
    /\ req.infraID = cd.status.infraID /\ req.clusterID = cd.status.clusterID
    /\ req.region = cd.region /\ req.creds = cd.creds

\* The steps of a pass on a live object that come before the delete-after
\* annotation is read and end the pass: a wildcard ingress domain to
\* migrate, a ClusterImageSetNotFound condition to change.
StopsBeforeAnnotation ==
    \/ \E i \in 1..Len(cd.ingress) : HasWildcardPrefix(cd.ingress[i])
    \/ /\ cd.imageSetRef # "" /\ ~imageSet.exists
       /\ SetClusterDeploymentCondition(cd.status.imageSetCond, "False")
              # cd.status.imageSetCond

\* C37 as stated: every pass on a live object with the finalizer and without
\* SSH key reference returns an error, creates no child and writes no
\* status; every pass on a live object with an unparsable delete-after
\* annotation returns an error and writes nothing.
C37_AsStated ==
    [][(pass'.ran /\ cd.exists /\ ~cd.deleted) =>
        /\ (cd.finalizer /\ ~cd.sshKey) =>
              /\ pass'.err
              /\ pass'.writes \cap (ChildCreations \cup {"statusUpdate"}) = {}
        /\ cd.deleteAfter = "bad" =>
              /\ pass'.err
              /\ pass'.writes = {}]_vars

\* C37, amended: the same of every pass that gets to the delete-after
\* annotation, and for the SSH key of every pass that finds the object not
\* expired; such a pass writes nothing at all, so with an unparsable
\* annotation the finalizer is not attached.
C37_ConfigErrors ==
    [][(pass'.ran /\ cd.exists /\ ~cd.deleted /\ ~StopsBeforeAnnotation) =>
        /\ (cd.finalizer /\ ~cd.sshKey /\ ~Expired(cd, now)) =>
              /\ pass'.err
              /\ pass'.writes = {}
              /\ UNCHANGED <<cd, job, cfgMap, zone, req, isJob, secret>>
        /\ cd.deleteAfter = "bad" =>
              /\ pass'.err
              /\ pass'.writes = {}
              /\ UNCHANGED <<cd, job, cfgMap, zone, req, isJob, secret>>]_vars

\* A pass on an object with the finalizer and no SSH key reference returned
\* an error and wrote nothing, with no call failing.
C37_Witness ==
    /\ pass.ran /\ ~pass.fault /\ pass.err /\ pass.writes = {}
    /\ cd.exists /\ ~cd.deleted /\ cd.finalizer /\ ~cd.sshKey
    /\ cd.deleteAfter # "bad" /\ ~StopsBeforeAnnotation
    /\ ~job.exists /\ ~isJob.exists /\ ~zone.exists /\ ~cfgMap

\* C38: passes of distinct ClusterDeployments that run concurrently do not
\* interfere.  Whenever the pass for one of them returns, with the other's
\* fetch or return anywhere in between: every object it has created, updated
\* or deleted is the ClusterDeployment itself or one of its own children (its
\* install job, config map, DNS zone, resolver job, deprovision request,
\* kubeconfig secret), or the namespace's installer service account, which it
\* only ever creates; no object of the other ClusterDeployment and no
\* ClusterImageSet has changed; and the store is as if the whole pass had run
\* at that moment (what it fetched is what the store still holds, or its
\* writes are those of a pass that fetches now), so that the outcome is that
\* of the passes run one after the other in the order of their returns.
Finishes(n) == inflight[n].busy /\ ~inflight'[n].busy

SerialResult(n) ==
    \/ inflight[n].S = StoreFor(n)
    \/ \E S \in {StoreFor(n)} :
      \E F \in FailChoices(ReconcileRequest(S, {}, 0, now).calls),
         podRestarts \in IF S.job.exists THEN 0..MaxRestarts ELSE {0} :
        \E R \in {ReconcileRequest(S, F, podRestarts, now)} :
            objects' = PutPass(n, S, R)

OthersUntouched(n) ==
    /\ \A m \in PairNames \ {n} : \A k \in OwnKeys(m) : objects'[k] = objects[k]
    /\ objects'[ImageSetKey] = objects[ImageSetKey]

ReconcileEnabledIsEnabled ==
    ReconcileEnabled <=> ENABLED <<ReconcileSucceeding>>_vars

====
